---------------------------- MODULE Spec2Model ----------------------------
(***************************************************************************)
(* A model of the PvPoke command-line ranking engine:                      *)
(*   RankerNode         (src/cli/lib/RankerNode.js)                        *)
(*   RankerOverallNode  (src/cli/lib/RankerOverallNode.js)                 *)
(*   GameMasterNode     (listed in src/RANKINGS-CLI.md, lines 89-480)      *)
(*                                                                         *)
(* Numbers.  JavaScript numbers are modelled in fixed point:               *)
(*   ratings (rating, adjRating, ...)  in tenths of a rating point,        *)
(*   weights and weightModifier        in thousandths,                     *)
(*   final 0-100 scores                in tenths (100.0 is 1000).          *)
(* Divisions whose result the code floors or rounds are computed exactly.  *)
(***************************************************************************)
EXTENDS Integers, Sequences, FiniteSets, TLC

VARIABLES
    run,           \* the inputs of the run: cup name, bracket, the stored overall
                   \*   ranking, the overrides file and the ranker's scenario list
    pc,            \* where the ranker is: "idle", "ready", "battles", "weight", "done"
    league,        \* the bracket (power cap) of the run
    cupData,       \* the cup of the run (battle.getCup())
    overrides,     \* RankerNode.overrides
    pokemonList,   \* RankerNode.pokemonList : the candidate pool
    targets,       \* RankerNode.targets     : the target pool
    si,            \* rankAll's position in this.scenarios (1-based)
    scenario,      \* the scenario rank() is running
    rankings,      \* rank()'s local `rankings`
    ci,            \* rank()'s loop index i (1-based)
    tn,            \* rank()'s loop index n (1-based)
    rankObj,       \* rank()'s local `rankObj` of candidate ci
    avg,           \* rank()'s local `avg` (tenths)
    totalBattles,  \* rank()'s local `totalBattles` (simulator calls)
    pass,          \* weightMatchups' loop index n (passes done so far)
    best,          \* weightMatchups' local `bestScore` of the last pass (tenths)
    stored,        \* the ranking files of the cup and bracket, by category
    filt,          \* one call of checkFilters: its arguments and its result
    levelCap,      \* the level cap of the ranker's battle, 0 standing for the cap
                   \*   the Battle was constructed with
    cache,         \* GameMasterNode.rankings, for the cup and bracket, by category
    loaded         \* the last call of gm.loadRankingData: its category and its result

vars == << run, pc, league, cupData, overrides, pokemonList, targets, si, scenario,
           rankings, ci, tn, rankObj, avg, totalBattles, pass, best, stored, filt,
           levelCap, cache, loaded >>

rankVars == << scenario, rankings, ci, tn, rankObj, avg, totalBattles, pass, best >>
poolVars == << league, cupData, levelCap, overrides, pokemonList, targets >>
gmVars == << cache, loaded >>

---------------------------------------------------------------------------
(* Bounds of the model *)

\* The simulator leaves each side with hp = stats.hp * j / HpSteps, j in 0..HpSteps
HpSteps == 1

\* The longest include list and the longest exclude list checkFilters is called with
MaxInclude == 2
MaxExclude == 1

---------------------------------------------------------------------------
(* Master data (gm.data): a small roster, its moves, its cups *)

Leagues == {500, 1500, 2500, 10000}

NoId == << >>

StatsTable(s500, s1500, s2500, s10000) ==
    [c \in Leagues |-> CASE c = 500  -> s500
                         [] c = 1500 -> s1500
                         [] c = 2500 -> s2500
                         [] OTHER    -> s10000]

St(hp, atk, def) == [hp |-> hp, atk |-> atk, def |-> def]

\* gm.data.pokemon, in the alphabetical order loadData() leaves it in.
\* speciesId is a sequence of tokens: "medicham_shadow" is <<"medicham", "_shadow">>.
GmPokemon == <<
    [speciesId |-> <<"azumarill">>, dex |-> 184, types |-> <<"water", "fairy">>,
     tags |-> {}, released |-> TRUE,
     stats |-> StatsTable(St(60, 50, 60), St(190, 92, 135), St(195, 95, 138), St(195, 95, 138)),
     fastMovePool |-> <<"BUBBLE">>, chargedMovePool |-> <<"ICE_BEAM", "PLAY_ROUGH">>,
     shadowAtkMult |-> 1000],
    [speciesId |-> <<"charizard", "_mega">>, dex |-> 6, types |-> <<"fire", "flying">>,
     tags |-> {"mega"}, released |-> TRUE,
     stats |-> StatsTable(St(50, 70, 40), St(90, 150, 95), St(110, 190, 120), St(150, 280, 190)),
     fastMovePool |-> <<"FIRE_SPIN">>, chargedMovePool |-> <<"BLAST_BURN">>,
     shadowAtkMult |-> 1000],
    [speciesId |-> <<"kecleon">>, dex |-> 352, types |-> <<"normal", "none">>,
     tags |-> {}, released |-> FALSE,
     stats |-> StatsTable(St(60, 55, 70), St(120, 115, 140), St(125, 120, 145), St(125, 120, 145)),
     fastMovePool |-> <<"LICK">>, chargedMovePool |-> <<"ICE_BEAM">>,
     shadowAtkMult |-> 1000],
    [speciesId |-> <<"medicham">>, dex |-> 308, types |-> <<"fighting", "psychic">>,
     tags |-> {}, released |-> TRUE,
     stats |-> StatsTable(St(55, 50, 60), St(140, 106, 139), St(142, 108, 141), St(142, 108, 141)),
     fastMovePool |-> <<"COUNTER">>, chargedMovePool |-> <<"ICE_PUNCH", "PSYCHIC">>,
     shadowAtkMult |-> 1000],
    [speciesId |-> <<"medicham", "_shadow">>, dex |-> 308, types |-> <<"fighting", "psychic">>,
     tags |-> {"shadow"}, released |-> TRUE,
     stats |-> StatsTable(St(55, 60, 50), St(140, 127, 116), St(142, 129, 118), St(142, 129, 118)),
     fastMovePool |-> <<"COUNTER">>, chargedMovePool |-> <<"ICE_PUNCH", "PSYCHIC">>,
     shadowAtkMult |-> 1200],
    [speciesId |-> <<"mewtwo">>, dex |-> 150, types |-> <<"psychic", "none">>,
     tags |-> {"legendary"}, released |-> TRUE,
     stats |-> StatsTable(St(40, 90, 60), St(100, 160, 100), St(130, 200, 130), St(180, 250, 160)),
     fastMovePool |-> <<"LICK">>, chargedMovePool |-> <<"PSYCHIC", "ICE_BEAM">>,
     shadowAtkMult |-> 1000],
    [speciesId |-> <<"pikachu">>, dex |-> 25, types |-> <<"electric", "none">>,
     tags |-> {}, released |-> TRUE,
     stats |-> StatsTable(St(50, 60, 45), St(110, 95, 80), St(110, 95, 80), St(110, 95, 80)),
     fastMovePool |-> <<"BUBBLE">>, chargedMovePool |-> <<"PLAY_ROUGH">>,
     shadowAtkMult |-> 1000],
    [speciesId |-> <<"smeargle">>, dex |-> 235, types |-> <<"normal", "none">>,
     tags |-> {"include1500"}, released |-> TRUE,
     stats |-> StatsTable(St(70, 20, 50), St(130, 40, 90), St(130, 40, 90), St(130, 40, 90)),
     fastMovePool |-> <<"LICK">>, chargedMovePool |-> <<"ICE_BEAM">>,
     shadowAtkMult |-> 1000]
>>

Species(id) == CHOOSE p \in { GmPokemon[k] : k \in 1..Len(GmPokemon) } : p.speciesId = id

\* gm.data.moves: fast moves (power, cooldown in ms, energyGain) and charged moves (energy)
FastMoves ==
    [m \in {"BUBBLE", "COUNTER", "FIRE_SPIN", "LICK"} |->
        CASE m = "BUBBLE"    -> [power |-> 7, cooldown |-> 1500, energyGain |-> 11]
          [] m = "COUNTER"   -> [power |-> 8, cooldown |-> 1000, energyGain |-> 7]
          [] m = "FIRE_SPIN" -> [power |-> 11, cooldown |-> 1500, energyGain |-> 10]
          [] OTHER           -> [power |-> 3, cooldown |-> 500, energyGain |-> 3]]

ChargedMoves ==
    [m \in {"BLAST_BURN", "ICE_BEAM", "ICE_PUNCH", "PLAY_ROUGH", "PSYCHIC"} |->
        CASE m = "BLAST_BURN" -> [energy |-> 50]
          [] m = "ICE_BEAM"   -> [energy |-> 55]
          [] m = "ICE_PUNCH"  -> [energy |-> 40]
          [] m = "PLAY_ROUGH" -> [energy |-> 60]
          [] OTHER            -> [energy |-> 100]]

---------------------------------------------------------------------------
(* Eligibility rules *)

AllLeagues == Leagues

\* A rule.  `leagues` is the set of brackets it is scoped to; a rule without a
\* `leagues` field applies everywhere, which is the scope AllLeagues.
Rule(kind, vals, idset, lo, hi, lgs, shadows) ==
    [filterType |-> kind, values |-> vals, ids |-> idset, lo |-> lo, hi |-> hi,
     leagues |-> lgs, includeShadows |-> shadows]

TypeRule(vals)        == Rule("type", vals, {}, 0, 0, AllLeagues, FALSE)
DexRule(lo, hi)       == Rule("dex", {}, {}, lo, hi, AllLeagues, FALSE)
TagRule(vals)         == Rule("tag", vals, {}, 0, 0, AllLeagues, FALSE)
IdRule(idset)         == Rule("id", {}, idset, 0, 0, AllLeagues, FALSE)
IdShadowRule(idset)   == Rule("id", {}, idset, 0, 0, AllLeagues, TRUE)
MoveRule(vals)        == Rule("move", vals, {}, 0, 0, AllLeagues, FALSE)
Scoped(rule, lgs)     == [rule EXCEPT !.leagues = lgs]

\* String.prototype.replace(token, ''): drops the first occurrence of the token
RECURSIVE Replace(_, _)
Replace(id, token) ==
    IF id = << >> THEN << >>
    ELSE IF Head(id) = token THEN Tail(id)
    ELSE << Head(id) >> \o Replace(Tail(id), token)

hasTag(pokemon, tag) == tag \in pokemon.tags

knowsMove(pokemon, moveId) ==
    \/ \E k \in 1..Len(pokemon.fastMovePool) : pokemon.fastMovePool[k] = moveId
    \/ \E k \in 1..Len(pokemon.chargedMovePool) : pokemon.chargedMovePool[k] = moveId

\* `filter.leagues && !filter.leagues.includes(cp)` is false
FilterApplies(filter, cp) == cp \in filter.leagues

\* The identity test of an `id` rule
IdMatches(pokemon, filter, isInclude) ==
    LET testId == IF ~isInclude \/ filter.includeShadows
                  THEN Replace(Replace(pokemon.speciesId, "_shadow"), "_xs")
                  ELSE pokemon.speciesId
    IN  testId \in filter.ids \/ pokemon.speciesId \in filter.ids

\* Whether the switch statement finds the rule matched
RuleMatches(pokemon, filter, isInclude) ==
    CASE filter.filterType = "type" ->
            pokemon.types[1] \in filter.values \/ pokemon.types[2] \in filter.values
      [] filter.filterType = "dex"  ->
            pokemon.dex >= filter.lo /\ pokemon.dex <= filter.hi
      [] filter.filterType = "tag"  ->
            \E tag \in filter.values : hasTag(pokemon, tag)
      [] filter.filterType = "id"   -> IdMatches(pokemon, filter, isInclude)
      [] filter.filterType = "move" ->
            \E moveId \in filter.values : knowsMove(pokemon, moveId)
      [] OTHER -> FALSE

\* What one matched rule adds to filtersMatched
MatchGain(filter, len) == IF filter.filterType = "id" THEN len ELSE 1

\* What one applicable rule takes off requiredFilters
RequiredDrop(filter, isInclude, len) ==
    IF filter.filterType = "id" /\ isInclude /\ len > 1 THEN 1 ELSE 0

\* The inner loop of checkFilters over one rule list, from rule k on:
\* filtersMatched, requiredFilters and whether an `id` rule matched
RECURSIVE CountFilters(_, _, _, _, _)
CountFilters(pokemon, filters, isInclude, cp, k) ==
    IF k > Len(filters)
    THEN [matched |-> 0, required |-> Len(filters), idHit |-> FALSE]
    ELSE LET rest == CountFilters(pokemon, filters, isInclude, cp, k + 1)
             f    == filters[k]
             hit  == RuleMatches(pokemon, f, isInclude)
         IN  IF ~FilterApplies(f, cp)
             THEN [rest EXCEPT !.required = @ - 1]
             ELSE [matched  |-> rest.matched + (IF hit THEN MatchGain(f, Len(filters)) ELSE 0),
                   required |-> rest.required - RequiredDrop(f, isInclude, Len(filters)),
                   idHit    |-> rest.idHit \/ (hit /\ f.filterType = "id")]

\* The exclude list's verdict, were it never to exclude, and were it to ignore
\* the `id` include exemption
ExcludedNever(exc, includeIdFilter) == FALSE

ExcludedIgnoringIds(exc, includeIdFilter) == exc.matched > 0

\* The exclude list's verdict

Excluded(exc, includeIdFilter) == exc.matched > 0 /\ ~includeIdFilter

checkFilters(pokemon, include, exclude, cp) ==
    LET inc == CountFilters(pokemon, include, TRUE, cp, 1)
        exc == CountFilters(pokemon, exclude, FALSE, cp, 1)
        includeIdFilter == inc.idHit
        allowedByInclude == inc.matched >= inc.required
    IN  IF Excluded(exc, includeIdFilter) THEN FALSE ELSE allowedByInclude

---------------------------------------------------------------------------
(* Cups, prior rankings and moveset overrides *)

\* A cup of gm.data.cups.  levelCap 0 stands for a cup that names no level cap.
Cup(name, include, exclude, lowStat, filterTargets) ==
    [name |-> name, include |-> include, exclude |-> exclude,
     includeLowStatProduct |-> lowStat, filterTargets |-> filterTargets, levelCap |-> 0]

\* The cup with a level cap of its own
Capped(cup, cap) == [cup EXCEPT !.levelCap = cap]

\* gm.data.cups after the custom cups of custom-cups.json were registered
GmCups == {
    Cup("all", << >>, << >>, FALSE, FALSE),
    Cup("fighters", << TypeRule({"fighting"}) >>, << TagRule({"shadow"}) >>, FALSE, FALSE),
    Cup("mycup", << TypeRule({"water", "fighting"}),
                    IdRule({<<"smeargle">>, <<"mewtwo">>}) >>,
                 << TagRule({"shadow"}) >>, FALSE, FALSE),
    Cup("custom", << IdRule({<<"azumarill">>, <<"medicham">>}) >>, << >>, FALSE, FALSE),
    Cup("lowstat", << TypeRule({"electric", "water"}) >>, << >>, TRUE, FALSE),
    Cup("elite", << TypeRule({"water", "fighting"}) >>, << >>, FALSE, TRUE),
    Cup("dragons", << TypeRule({"dragon"}) >>, << >>, FALSE, FALSE),
    Cup("open", << >>, << >>, TRUE, FALSE),
    Capped(Cup("classic", << TypeRule({"water", "fighting"}) >>, << >>, FALSE, FALSE),
           40)
}

\* gm.customCups: the names registered through registerCustomCup
GmCustomCups == {"mycup", "custom", "elite"}

getCupById(id) == CHOOSE c \in GmCups : c.name = id

isCustomCup(cupName) == cupName \in GmCustomCups

Use(moveId, uses) == [moveId |-> moveId, uses |-> uses]

\* An entry of a stored overall ranking, as initPokemonList reads it
RankEntry(id, score, hasMoves, fast, charged) ==
    [speciesId |-> id, score |-> score, hasMoves |-> hasMoves,
     fastMoves |-> fast, chargedMoves |-> charged]

\* What gm.loadRankingData('overall', league, cup) may hand to rankAll:
\* nothing, or an earlier overall ranking (scores in tenths)
PriorNone == << >>

PriorUsage ==
    << RankEntry(<<"azumarill">>, 1000, TRUE,
                 << Use("BUBBLE", 90) >>, << Use("PLAY_ROUGH", 20), Use("ICE_BEAM", 70) >>),
       RankEntry(<<"medicham">>, 800, TRUE,
                 << Use("COUNTER", 50) >>, << Use("ICE_PUNCH", 30), Use("PSYCHIC", 10) >>),
       RankEntry(<<"smeargle">>, 455, FALSE, << >>, << >>) >>

PriorSkewed ==
    << RankEntry(<<"medicham">>, 1000, TRUE,
                 << Use("COUNTER", 50) >>, << Use("PSYCHIC", 30) >>),
       RankEntry(<<"azumarill">>, 0, TRUE,
                 << Use("BUBBLE", 90) >>, << Use("ICE_BEAM", 70), Use("PLAY_ROUGH", 70) >>) >>

PriorRankings == { PriorNone, PriorUsage, PriorSkewed }

\* An entry of an overrides file.  fastMove "" and hasCharged FALSE stand for an
\* absent field, hasWeight FALSE for `typeof weight === 'undefined'`.
Override(id, fast, hasCharged, charged, hasWeight, weight) ==
    [speciesId |-> id, fastMove |-> fast, hasCharged |-> hasCharged,
     chargedMoves |-> charged, hasWeight |-> hasWeight, weight |-> weight]

\* What gm.loadOverrides(league, cup) may return (weights in thousandths)
OverridesNone == << >>

OverridesOne ==
    << Override(<<"medicham">>, "", FALSE, << >>, TRUE, 2000),
       Override(<<"azumarill">>, "BUBBLE", TRUE, << "PLAY_ROUGH" >>, FALSE, 0) >>

OverridesTwo ==
    << Override(<<"azumarill">>, "", FALSE, << >>, TRUE, 1500),
       Override(<<"medicham">>, "", FALSE, << >>, TRUE, 3000),
       Override(<<"medicham", "_shadow">>, "", TRUE, << >>, TRUE, 0) >>

OverrideFiles == { OverridesNone, OverridesOne, OverridesTwo }

---------------------------------------------------------------------------
(* Roster Builder: RankerNode.loadOverrides, initPokemonList, applyOverrides *)

loadOverrides(lg, cupName, overrideData) ==
    IF Len(overrideData) > 0
    THEN << [league |-> lg, cup |-> cupName, pokemon |-> overrideData] >>
    ELSE << >>

getMinStats(cp) ==
    IF cp = 500 THEN 0
    ELSE IF cp = 1500 THEN 1370
    ELSE IF cp = 2500 THEN 2800
    ELSE 4900

getBannedList == { <<"mewtwo">>, <<"mewtwo", "_armored">>, <<"giratina", "_altered">>,
                   <<"groudon">>, <<"kyogre">>, <<"dialga">>, <<"palkia">> }

\* new Pokemon(speciesId, 0, battle) followed by initialize(cp): the roster entry
\* with the stats of the bracket and the default weightModifier of 1
Pokemon(pokeData, cp) ==
    [speciesId |-> pokeData.speciesId, dex |-> pokeData.dex, types |-> pokeData.types,
     tags |-> pokeData.tags, released |-> pokeData.released, stats |-> pokeData.stats[cp],
     fastMovePool |-> pokeData.fastMovePool, chargedMovePool |-> pokeData.chargedMovePool,
     shadowAtkMult |-> pokeData.shadowAtkMult,
     fastMove |-> "none", chargedMoves |-> << >>, weightModifier |-> 1000]

\* lines 118-128: the entry passes the stat-product threshold
PassesStatsNoOptIn(pokemon, cp, cup) ==
    LET product == pokemon.stats.hp * pokemon.stats.atk * pokemon.stats.def
    IN  ~(product < getMinStats(cp) * 1000 /\ ~cup.includeLowStatProduct)
        \/ hasTag(pokemon, "include1500") \/ hasTag(pokemon, "include2500")
        \/ hasTag(pokemon, "include10000") \/ hasTag(pokemon, "mega")

PassesStats(pokemon, cp, cup) ==
    LET product == pokemon.stats.hp * pokemon.stats.atk * pokemon.stats.def
    IN  IF product < getMinStats(cp) * 1000 /\ ~cup.includeLowStatProduct
        THEN ~( /\ ~(cp = 1500 /\ hasTag(pokemon, "include1500"))
                /\ ~(cp = 2500 /\ hasTag(pokemon, "include2500"))
                /\ ~(cp = 10000 /\ hasTag(pokemon, "include10000"))
                /\ ~hasTag(pokemon, "mega") )
        ELSE TRUE

\* lines 118-137: the entry is added to the pool
Admitted(pokemon, cp, cup) ==
    /\ PassesStats(pokemon, cp, cup)
    /\ pokemon.released
    /\ ~(cp < 2500 /\ pokemon.speciesId \in getBannedList)
    /\ checkFilters(pokemon, cup.include, cup.exclude, cp)

\* [...moves].sort((a, b) => b.uses - a.uses): a stable sort, most used first
RECURSIVE InsertByUses(_, _)
InsertByUses(sorted, m) ==
    IF sorted = << >> THEN << m >>
    ELSE IF Head(sorted).uses >= m.uses
         THEN << Head(sorted) >> \o InsertByUses(Tail(sorted), m)
         ELSE << m >> \o sorted

RECURSIVE SortByUses(_)
SortByUses(moves) ==
    IF moves = << >> THEN << >>
    ELSE InsertByUses(SortByUses(SubSeq(moves, 1, Len(moves) - 1)), moves[Len(moves)])

\* rankingData.find(r => r.speciesId === id): the first such index, 0 when none
RECURSIVE FindBySpecies(_, _, _)
FindBySpecies(list, id, k) ==
    IF k > Len(list) THEN 0
    ELSE IF list[k].speciesId = id THEN k
    ELSE FindBySpecies(list, id, k + 1)

\* pokemon.autoSelectMoves(): the first fast move and the first two charged moves
autoSelectMoves(pokemon) ==
    [pokemon EXCEPT
        !.fastMove = IF Len(pokemon.fastMovePool) > 0 THEN pokemon.fastMovePool[1] ELSE "none",
        !.chargedMoves = SubSeq(pokemon.chargedMovePool, 1,
                                IF Len(pokemon.chargedMovePool) > 2 THEN 2
                                ELSE Len(pokemon.chargedMovePool))]

\* lines 140-162: the moveset and weight from the stored ranking
SeedFromRanking(pokemon, rankingData) ==
    LET k == FindBySpecies(rankingData, pokemon.speciesId, 1)
    IN  IF k > 0 /\ rankingData[k].hasMoves
        THEN LET fastMoves    == SortByUses(rankingData[k].fastMoves)
                 chargedMoves == SortByUses(rankingData[k].chargedMoves)
             IN  [pokemon EXCEPT
                     !.fastMove = fastMoves[1].moveId,
                     !.chargedMoves =
                         IF Len(chargedMoves) > 1
                         THEN << chargedMoves[1].moveId, chargedMoves[2].moveId >>
                         ELSE << chargedMoves[1].moveId >>,
                     !.weightModifier = rankingData[k].score]
        ELSE autoSelectMoves(pokemon)

\* One matching entry of the overrides file applied to the contestant
ApplyOne(pokemon, o) ==
    LET withFast == IF o.fastMove # "" THEN [pokemon EXCEPT !.fastMove = o.fastMove]
                    ELSE pokemon
        withCharged ==
            IF o.hasCharged
            THEN [withFast EXCEPT !.chargedMoves =
                     IF Len(o.chargedMoves) >= 2 THEN SubSeq(o.chargedMoves, 1, 2)
                     ELSE IF Len(o.chargedMoves) = 1 THEN << o.chargedMoves[1] >>
                     ELSE SubSeq(withFast.chargedMoves, 1,
                                 IF Len(withFast.chargedMoves) > 1 THEN 1
                                 ELSE Len(withFast.chargedMoves))]
            ELSE withFast
    IN  IF o.hasWeight THEN [withCharged EXCEPT !.weightModifier = o.weight]
        ELSE withCharged

applyOverrides(pokemon, lg, cupName, ovs) ==
    IF Len(ovs) > 0 /\ ovs[1].league = lg /\ ovs[1].cup = cupName
    THEN LET k == FindBySpecies(ovs[1].pokemon, pokemon.speciesId, 1)
         IN  IF k > 0 THEN ApplyOne(pokemon, ovs[1].pokemon[k]) ELSE pokemon
    ELSE pokemon

\* lines 169-176: the contestant also joins the target pool
IsTargetAlways(pokemon, cup) == TRUE

IsTarget(pokemon, cup) ==
    IF cup.filterTargets THEN pokemon.weightModifier > 1000 ELSE TRUE

\* The loop of initPokemonList over gm.data.pokemon, from entry k on
RECURSIVE BuildPools(_, _, _, _, _)
BuildPools(cp, cup, rankingData, ovs, k) ==
    IF k > Len(GmPokemon) THEN [pokemonList |-> << >>, targets |-> << >>]
    ELSE LET rest    == BuildPools(cp, cup, rankingData, ovs, k + 1)
             created == Pokemon(GmPokemon[k], cp)
             pokemon == applyOverrides(SeedFromRanking(created, rankingData),
                                       cp, cup.name, ovs)
         IN  IF Admitted(created, cp, cup)
             THEN [pokemonList |-> << pokemon >> \o rest.pokemonList,
                   targets     |-> IF IsTarget(pokemon, cup)
                                   THEN << pokemon >> \o rest.targets
                                   ELSE rest.targets]
             ELSE rest

initPokemonList(cp, cup, rankingData, ovs) == BuildPools(cp, cup, rankingData, ovs, 1)

---------------------------------------------------------------------------
(* Fixed-point arithmetic *)

\* Not-a-number, as 0/0 produces it.  Every other score of the model is >= 0.
NaN == 0 - 1

Max(a, b) == IF a >= b THEN a ELSE b
Min(a, b) == IF a <= b THEN a ELSE b

RECURSIVE SeqSum(_)
SeqSum(s) == IF s = << >> THEN 0 ELSE Head(s) + SeqSum(Tail(s))

RECURSIVE SeqMax(_)
SeqMax(s) == IF Len(s) = 1 THEN s[1] ELSE Max(Head(s), SeqMax(Tail(s)))

\* floor(sqrt(x)) by bisection: lo * lo <= x < hi * hi
RECURSIVE SqrtBetween(_, _, _)
SqrtBetween(x, lo, hi) ==
    IF hi - lo <= 1 THEN lo
    ELSE LET mid == (lo + hi) \div 2
         IN  IF mid * mid <= x THEN SqrtBetween(x, mid, hi) ELSE SqrtBetween(x, lo, mid)

ISqrt(x) == SqrtBetween(x, 0, 46341)

\* floor(cbrt(x)) by bisection
RECURSIVE CbrtBetween(_, _, _)
CbrtBetween(x, lo, hi) ==
    IF hi - lo <= 1 THEN lo
    ELSE LET mid == (lo + hi) \div 2
         IN  IF mid * mid * mid <= x THEN CbrtBetween(x, mid, hi) ELSE CbrtBetween(x, lo, mid)

ICbrt(x) == CbrtBetween(x, 0, 1291)

\* Square root and sixth root of a number given in thousandths, in thousandths
SqrtTh(v) == ISqrt(v * 1000)
Root6Th(v) == ICbrt(SqrtTh(v) * 1000000)

\* v ^ (q / 256) for v >= 1 given in thousandths, q in 0..256, in thousandths:
\* the product of the roots v^(1/2), v^(1/4), ... that the bits of q select
RECURSIVE PowBits(_, _, _)
PowBits(root, q, bit) ==
    IF bit = 0 THEN 1000
    ELSE LET r == SqrtTh(root)
         IN  IF q >= bit
             THEN (r * PowBits(r, q - bit, bit \div 2)) \div 1000
             ELSE PowBits(r, q, bit \div 2)

PowTh(v, q) == IF q >= 256 THEN v ELSE PowBits(v, q, 128)

---------------------------------------------------------------------------
(* Scenarios (gm.data.rankingScenarios) *)

Scenario(slug, s0, s1, e0, e1) ==
    [slug |-> slug, shields |-> << s0, s1 >>, energy |-> << e0, e1 >>]

RankingScenarios == <<
    Scenario("leads", 1, 1, 0, 0),
    Scenario("closers", 0, 0, 0, 0),
    Scenario("switches", 1, 1, 4, 0),
    Scenario("chargers", 1, 1, 6, 0),
    Scenario("attackers", 0, 1, 0, 0) >>

ScenarioBySlug(slug) ==
    CHOOSE sc \in { RankingScenarios[k] : k \in 1..Len(RankingScenarios) } : sc.slug = slug

---------------------------------------------------------------------------
(* Battle Orchestrator: RankerNode.rank, lines 315-445 *)

\* setEnergyAdvantage: the starting energy of a contestant
setEnergyAdvantage(pokemon, turns) ==
    IF turns = 0 THEN 0
    ELSE LET fastMove == FastMoves[pokemon.fastMove]
             fastMoveCount == Max(1, (turns * 500) \div fastMove.cooldown)
         IN  Min(fastMove.energyGain * fastMoveCount, 100)

\* The final hp values a contestant may be left with when the encounter runs out
\* of time: fainted, one point left, a third left, or untouched
HpPoints(pokemon) == {0, 1, pokemon.stats.hp \div 3, pokemon.stats.hp}

\* What battle.simulate() may leave behind when the encounter can end on time
\* with both sides standing: any of the hp points on either side, each side with
\* all or none of its shields
TimedOutcomes(pokemon, opponent, shieldCounts) ==
    { [hp |-> << h0, h1 >>, shields |-> << s0, s1 >>] :
        h0 \in HpPoints(pokemon), h1 \in HpPoints(opponent),
        s0 \in {0, shieldCounts[1]}, s1 \in {0, shieldCounts[2]} }

\* What battle.simulate() may leave behind when one side at least faints, and a
\* side that fainted has spent its shields
DecisiveOutcomes(pokemon, opponent, shieldCounts) ==
    { [hp |-> << (pokemon.stats.hp * j0) \div HpSteps, (opponent.stats.hp * j1) \div HpSteps >>,
       shields |-> << s0, s1 >>] :
        << j0, j1, s0, s1 >> \in
            { t \in (0..HpSteps) \X (0..HpSteps) \X (0..shieldCounts[1]) \X (0..shieldCounts[2]) :
                /\ t[1] = 0 \/ t[2] = 0
                /\ t[1] = 0 => t[3] = 0
                /\ t[2] = 0 => t[4] = 0 } }

\* The strength a scripted resolver goes by: attack, or hp times defense
Strength(pokemon, by) ==
    IF by = "attack" THEN pokemon.stats.atk ELSE pokemon.stats.hp * pokemon.stats.def

\* What a scripted resolver leaves behind: the stronger side wins with the share
\* of its hp by which it is stronger and with its shields, the weaker side
\* faints with its shields spent, and equals both faint
ScriptedOutcomes(pokemon, opponent, shieldCounts, by) ==
    LET p == Strength(pokemon, by)
        o == Strength(opponent, by)
    IN  { IF p > o
          THEN [hp |-> << (pokemon.stats.hp * (p - o)) \div p, 0 >>,
                shields |-> << shieldCounts[1], 0 >>]
          ELSE IF p < o
          THEN [hp |-> << 0, (opponent.stats.hp * (o - p)) \div o >>,
                shields |-> << 0, shieldCounts[2] >>]
          ELSE [hp |-> << 0, 0 >>, shields |-> << 0, 0 >>] }

\* What battle.simulate() may leave behind for `pokemon` (side 0) against
\* `opponent` (side 1): the final hp and the remaining shields of both, under the
\* resolver of the run
SimOutcomes(pokemon, opponent, shieldCounts) ==
    IF run.resolver = "timed" THEN TimedOutcomes(pokemon, opponent, shieldCounts)
    ELSE IF run.resolver \in {"attack", "bulk"}
    THEN ScriptedOutcomes(pokemon, opponent, shieldCounts, run.resolver)
    ELSE DecisiveOutcomes(pokemon, opponent, shieldCounts)

\* generateMoveUsage: the usage table of `owner` in its encounter with `versus`
MoveUsage(owner, versus) == [of |-> owner.speciesId, vs |-> versus.speciesId]

\* lines 393-399: floor((hp/maxHp + (opMaxHp - opHp)/opMaxHp) * 500)
RawRating(hp, maxHp, opHp, opMaxHp) ==
    (500 * (hp * opMaxHp + (opMaxHp - opHp) * maxHp)) \div (maxHp * opMaxHp)

\* lines 402-408: the win multipliers of side 0 and of side 1
WinMultipliers(rating, opRating) ==
    IF rating = 500 THEN << 0, 0 >>
    ELSE IF rating > opRating THEN << 1, 0 >> ELSE << 0, 1 >>

\* lines 410-412, were the shields the side has left not counted
ShieldAdjustedSpentOnly(rating, spent, left, multiplier) ==
    rating + 100 * spent * multiplier

\* lines 410-412 and 414-416: the rating with 100 points for each shield the
\* other side spent and each shield the side has left, for the winning side
ShieldAdjusted(rating, spent, left, multiplier) ==
    rating + 100 * spent * multiplier + 100 * left * multiplier

\* lines 393-427: the pairing result of one simulated encounter (ratings in
\* tenths); `out` keeps what the resolver left behind
MatchOf(pokemon, opponent, shieldCounts, out) ==
    LET maxHp   == pokemon.stats.hp
        opMaxHp == opponent.stats.hp
        hp      == out.hp[1]
        opHp    == out.hp[2]
        rating   == RawRating(hp, maxHp, opHp, opMaxHp)
        opRating == RawRating(opHp, opMaxHp, hp, maxHp)
        wins     == WinMultipliers(rating, opRating)
        adjRating   == ShieldAdjusted(rating, shieldCounts[2] - out.shields[2],
                                      out.shields[1], wins[1])
        adjOpRating == ShieldAdjusted(opRating, shieldCounts[1] - out.shields[1],
                                      out.shields[2], wins[2])
    IN  [opponent |-> opponent.speciesId,
         rating |-> 10 * rating, adjRating |-> 10 * adjRating,
         opRating |-> 10 * opRating, adjOpRating |-> 10 * adjOpRating,
         moveUsage |-> MoveUsage(pokemon, opponent),
         oppMoveUsage |-> MoveUsage(opponent, pokemon),
         score |-> 0, opScore |-> [base |-> 0, exp |-> 0], weight |-> 0,
         simulated |-> TRUE, out |-> out]

\* lines 356-364: the pairing result taken over from the mirrored pairing
MirrorOf(opponent, m) ==
    [opponent |-> opponent.speciesId,
     rating |-> m.opRating, adjRating |-> m.adjOpRating,
     opRating |-> m.rating, adjOpRating |-> m.adjRating,
     moveUsage |-> m.oppMoveUsage, oppMoveUsage |-> m.moveUsage,
     score |-> 0, opScore |-> [base |-> 0, exp |-> 0], weight |-> 0,
     simulated |-> FALSE,
     out |-> [hp |-> << m.out.hp[2], m.out.hp[1] >>,
              shields |-> << m.out.shields[2], m.out.shields[1] >>]]

\* lines 353-355: the pairing (ci, tn) can be taken from rankings[tn].matches[ci]
CanReuseIgnoringEnergy(scn, done, i, n, pool, tgts) ==
    /\ n <= Len(done)
    /\ Len(pool) = Len(tgts)
    /\ scn.shields[1] = scn.shields[2]
    /\ i <= Len(done[n].matches)

CanReuse(scn, done, i, n, pool, tgts) ==
    /\ n <= Len(done)
    /\ Len(pool) = Len(tgts)
    /\ scn.shields[1] = scn.shields[2]
    /\ scn.energy[1] = scn.energy[2]
    /\ i <= Len(done[n].matches)

\* lines 333-341, were the entry not named after the candidate
NewRankObjUnnamed(pokemon) ==
    [speciesId |-> NoId, rating |-> 0, matches |-> << >>, scores |-> << >>]

\* lines 333-341: the entry of a candidate, before its encounters
NewRankObj(pokemon) ==
    [speciesId |-> pokemon.speciesId, rating |-> 0, matches |-> << >>, scores |-> << >>]

\* `isMirror`: what a pairing adds to `avg`
AvgGain(pokemon, opponent, adj) ==
    IF opponent.speciesId = pokemon.speciesId THEN 0 ELSE adj

\* lines 434-439: the candidate's initial average, in tenths
CloseRankObj(obj, sum, targetCount) ==
    LET nonMirrorCount == targetCount - 1
        divisor == IF nonMirrorCount = 0 THEN 1 ELSE nonMirrorCount
        average == IF targetCount = 0 THEN 0 ELSE 10 * (sum \div (10 * divisor))
    IN  [obj EXCEPT !.rating = average, !.scores = << average >>]

---------------------------------------------------------------------------
(* Iterative Weight Solver: RankerNode.weightMatchups, lines 491-565 *)

\* line 492
Iterations(cup) == IF cup.name = "custom" THEN 7 ELSE 1

\* a * b of two numbers in thousandths; a positive product stays positive
MulTh(a, b) ==
    IF a = NaN \/ b = NaN THEN NaN
    ELSE IF a = 0 \/ b = 0 THEN 0
    ELSE Max(1, (a * b) \div 1000)

\* lines 509-512: pow(max(score / bestScore - (0.1 + 0.06 n), 0), 1.65), in
\* thousandths.  The exponent is taken as 1 + 166/256.
RankWeight(score, bestScore, n) ==
    IF bestScore = NaN \/ score = NaN \/ bestScore = 0 THEN NaN
    ELSE IF 100 * score <= (10 + 6 * n) * bestScore THEN 0
    ELSE LET x == Max(1, (1000 * score) \div bestScore - (100 + 60 * n))
         IN  Max(1, (x * PowTh(x, 166)) \div 1000)

\* line 553: the target's score is under the cutoff of pass n
BelowCutoff(score, bestScore, n) ==
    IF bestScore = NaN \/ score = NaN \/ bestScore = 0 THEN FALSE
    ELSE 100 * score < (10 + 6 * n) * bestScore

\* lines 530-542: soft cap over 700 and harsh curve under 300 (tenths)
Shape(adjRating) ==
    LET capped == IF adjRating > 7000 THEN 7000 + ISqrt((adjRating - 7000) * 10)
                  ELSE adjRating
    IN  IF capped < 3000
        THEN PowTh(300000, ((3000 + capped) * 256) \div 6000) \div 100
        ELSE capped

\* line 516: the weight of a self-pairing, were it kept
MirrorWeightKept(w, target, candidate) == w

\* line 516
MirrorWeight(w, target, candidate) ==
    IF target.speciesId = candidate.speciesId THEN 0 ELSE w

\* lines 506-513
BaseWeight(score, bestScore, n, pool, tgts) ==
    IF Len(pool) = Len(tgts) THEN RankWeight(score, bestScore, n) ELSE 1000

\* lines 505-559: one pairing of candidate i in pass n
WeighMatch(m, j, i, n, bestScore, all, scn, pool, tgts) ==
    LET targetScore == all[j].scores[n + 1]
        w1 == MirrorWeight(BaseWeight(targetScore, bestScore, n, pool, tgts),
                           tgts[j], pool[i])
        w2 == MulTh(w1, tgts[j].weightModifier)
        adj == Shape(m.adjRating)
        w3 == IF scn.slug = "switches" /\ adj < 5000
              THEN MulTh(w2, 1000 + ((5000 - adj) * (5000 - adj)) \div 2000)
              ELSE w2
        sc == IF w3 = NaN THEN NaN ELSE adj * w3
        w4 == IF BelowCutoff(targetScore, bestScore, n) THEN 0 ELSE w3
    IN  [m EXCEPT !.adjRating = adj, !.score = sc,
                  !.opScore = [base |-> m.adjOpRating, exp |-> w3],
                  !.weight = w4]

\* -Infinity, which is what Math.max() of no argument is
NegInfinity == 0 - 3

\* line 498: Math.max(...rankings.map(r => r.scores[n]))
BestScore(all, n) ==
    IF all = << >> THEN NegInfinity
    ELSE IF \E k \in 1..Len(all) : all[k].scores[n + 1] = NaN THEN NaN
    ELSE SeqMax([k \in 1..Len(all) |-> all[k].scores[n + 1]])

\* line 561, were the weighted sum not divided by the weight total
AvgScoreUndivided(score, weights) == 10 * (score \div 10000)

\* line 561: floor(score / (weights || 1)), in tenths; `score` is in tenths times
\* thousandths, `weights` in thousandths
AvgScore(score, weights) ==
    IF weights = 0 THEN 10 * (score \div 10000)
    ELSE 10 * (score \div (10 * weights))

\* lines 500-563: candidate i in pass n
WeighCandidate(all, i, n, scn, pool, tgts) ==
    LET bestScore == BestScore(all, n)
        matches == [j \in 1..Len(all[i].matches) |->
                       WeighMatch(all[i].matches[j], j, i, n, bestScore, all, scn, pool, tgts)]
        anyNaN  == \E j \in 1..Len(matches) : matches[j].score = NaN \/ matches[j].weight = NaN
        score   == SeqSum([j \in 1..Len(matches) |-> matches[j].score])
        weights == SeqSum([j \in 1..Len(matches) |-> matches[j].weight])
        avgScore == IF anyNaN THEN NaN ELSE AvgScore(score, weights)
    IN  [all[i] EXCEPT !.matches = matches, !.scores = Append(@, avgScore)]

\* One pass n of weightMatchups over all candidates
WeightPass(all, n, scn, pool, tgts) ==
    [i \in 1..Len(all) |-> WeighCandidate(all, i, n, scn, pool, tgts)]

---------------------------------------------------------------------------
(* Scenario Finalizer: RankerNode.finalizeRankings, lines 567-613 *)

\* fastMove.stab: same-type attack bonus, in thousandths
Stab(pokemon) ==
    LET moveType == CASE pokemon.fastMove = "BUBBLE"    -> "water"
                      [] pokemon.fastMove = "COUNTER"   -> "fighting"
                      [] pokemon.fastMove = "FIRE_SPIN" -> "fire"
                      [] OTHER -> "ghost"
    IN  IF moveType = pokemon.types[1] \/ moveType = pokemon.types[2] THEN 1200 ELSE 1000

\* lines 587-596: the multiplier of the chargers scenario, in thousandths
ChargerMultiplier(pokemon) ==
    LET fastMove == FastMoves[pokemon.fastMove]
        dptOver5 == (((fastMove.power * pokemon.stats.atk * Stab(pokemon)) \div 1000)
                        * pokemon.shadowAtkMult) \div fastMove.cooldown
        minEnergy == SeqMax([k \in 1..Len(pokemon.chargedMoves) |->
                                0 - ChargedMoves[pokemon.chargedMoves[k]].energy])
        maxEnergyRemaining == 100 + minEnergy
    IN  Root6Th((ISqrt(maxEnergyRemaining * 10000) * Root6Th(dptOver5)) \div 1000)

\* lines 584-597: the score before scaling, in thousandths of a point
RawScore(entry, pokemon, scn) ==
    LET last == entry.scores[Len(entry.scores)]
    IN  IF last = NaN THEN NaN
        ELSE IF scn.slug = "chargers" /\ pokemon.fastMove # "none"
             THEN (last \div 10) * ChargerMultiplier(pokemon)
             ELSE (last \div 10) * 1000

\* rankings.sort(...), were the list left in the order it has
Unsorted(list) == list

\* rankings.sort((a, b) => b.score - a.score): stable; a comparison with NaN
\* yields NaN, which the sort reads as "equal"
RECURSIVE InsertByScore(_, _)
InsertByScore(sorted, e) ==
    IF sorted = << >> THEN << e >>
    ELSE IF Head(sorted).raw >= e.raw \/ Head(sorted).raw = NaN \/ e.raw = NaN
         THEN << Head(sorted) >> \o InsertByScore(Tail(sorted), e)
         ELSE << e >> \o sorted

RECURSIVE SortByScore(_)
SortByScore(list) ==
    IF list = << >> THEN << >>
    ELSE InsertByScore(SortByScore(SubSeq(list, 1, Len(list) - 1)), list[Len(list)])

\* line 609: rankings[0]?.score || 1
Highest(sorted) ==
    IF sorted = << >> \/ sorted[1].raw = NaN \/ sorted[1].raw = 0 THEN 1000
    ELSE sorted[1].raw

\* line 611: floor(score / highest * 1000) / 10, in tenths
\* The division is carried out digit by digit: floor(1000 * raw / highest)
ScaleScore(raw, highest) ==
    IF raw = NaN \/ highest = NaN \/ highest = 0 THEN NaN
    ELSE LET r0 == raw % highest
             r1 == (10 * r0) % highest
             r2 == (10 * r1) % highest
         IN  1000 * (raw \div highest) + 100 * ((10 * r0) \div highest)
                + 10 * ((10 * r1) \div highest) + (10 * r2) \div highest

---------------------------------------------------------------------------
(* RankerNode.setKeyMatchups, lines 615-655 *)

\* 4 ^ (d / 1000) in thousandths, for 0 <= d < 5200
Pow4Th(d) == (4 ^ (d \div 1000)) * PowTh(4000, ((d % 1000) * 256) \div 1000)

\* p < q for two values of opScore = adjOpRating * Math.pow(4, weight), each kept
\* as its base (tenths) and its exponent (thousandths).  A comparison with NaN is
\* false.  A base is at most 1200 points, so a gap of 5.2 or more between the
\* exponents decides the comparison (4 ^ 5.2 > 1200).
OpScoreLess(p, q) ==
    IF p.exp = NaN \/ q.exp = NaN THEN FALSE
    ELSE LET a == p.base \div 10
             b == q.base \div 10
         IN  IF p.exp >= q.exp
             THEN IF a = 0 THEN b > 0
                  ELSE IF p.exp - q.exp >= 5200 THEN FALSE
                  ELSE a * Pow4Th(p.exp - q.exp) < b * 1000
             ELSE IF b = 0 THEN FALSE
                  ELSE IF q.exp - p.exp >= 5200 THEN TRUE
                  ELSE a * 1000 < b * Pow4Th(q.exp - p.exp)

\* x < y for two values of score; a comparison with NaN is false
ScoreLess(x, y) == x # NaN /\ y # NaN /\ x < y

\* The comparator of each sort of setKeyMatchups says that a goes before b
\* (lines 620, 634, 637, 651)
GoesBefore(order, a, b) ==
    CASE order = "opScore"    -> OpScoreLess(b.opScore, a.opScore)
      [] order = "score"      -> ScoreLess(b.score, a.score)
      [] order = "ratingUp"   -> a.rating < b.rating
      [] OTHER                -> b.rating < a.rating

\* Array.prototype.sort with one of these comparators: a stable sort
RECURSIVE InsertInOrder(_, _, _)
InsertInOrder(order, sorted, e) ==
    IF sorted = << >> THEN << e >>
    ELSE IF GoesBefore(order, e, Head(sorted)) THEN << e >> \o sorted
    ELSE << Head(sorted) >> \o InsertInOrder(order, Tail(sorted), e)

RECURSIVE SortInOrder(_, _)
SortInOrder(order, list) ==
    IF list = << >> THEN << >>
    ELSE InsertInOrder(order, SortInOrder(order, SubSeq(list, 1, Len(list) - 1)),
                       list[Len(list)])

\* lines 624 and 641: the pairing is a loss (a counter) or a win (a key matchup)
IsKey(list, match) ==
    IF list = "counters" THEN match.rating < 5000 ELSE match.rating > 5000

\* lines 622-632 and 639-649, were the loop not stopped at matchupCount
RECURSIVE TakeAllKeys(_, _, _)
TakeAllKeys(matches, list, count) ==
    IF matches = << >> THEN << >>
    ELSE IF IsKey(list, Head(matches))
         THEN << [opponent |-> Head(matches).opponent, rating |-> Head(matches).rating] >>
                 \o TakeAllKeys(Tail(matches), list, count)
         ELSE TakeAllKeys(Tail(matches), list, count)

\* lines 622-632 and 639-649: the first `count` pairings of the kind, reduced to
\* opponent and rating
RECURSIVE TakeKeys(_, _, _)
TakeKeys(matches, list, count) ==
    IF matches = << >> \/ count = 0 THEN << >>
    ELSE IF IsKey(list, Head(matches))
         THEN << [opponent |-> Head(matches).opponent, rating |-> Head(matches).rating] >>
                 \o TakeKeys(Tail(matches), list, count - 1)
         ELSE TakeKeys(Tail(matches), list, count)

\* setKeyMatchups: the counters and the key matchups of an entry
setKeyMatchups(matches) ==
    LET matchupCount == Min(5, Len(matches))
        byOpScore == SortInOrder("opScore", matches)
        byScore   == SortInOrder("score", byOpScore)
    IN  [counters |-> SortInOrder("ratingUp", TakeKeys(byOpScore, "counters", matchupCount)),
         matchups |-> SortInOrder("ratingDown", TakeKeys(byScore, "matchups", matchupCount))]

\* finalizeRankings, lines 567-613
finalizeRankings(all, pool, scn) ==
    LET withScore == [i \in 1..Len(all) |->
                        [speciesId |-> all[i].speciesId,
                         rating    |-> all[i].rating,
                         moveset   |-> << pool[i].fastMove >> \o pool[i].chargedMoves,
                         matches   |-> all[i].matches,
                         matchups  |-> setKeyMatchups(all[i].matches).matchups,
                         counters  |-> setKeyMatchups(all[i].matches).counters,
                         solved    |-> all[i].scores[Len(all[i].scores)],
                         raw       |-> RawScore(all[i], pool[i], scn),
                         score     |-> RawScore(all[i], pool[i], scn)]]
        sorted  == SortByScore(withScore)
        highest == Highest(sorted)
    IN  [k \in 1..Len(sorted) |-> [sorted[k] EXCEPT !.score = ScaleScore(sorted[k].raw, highest)]]

---------------------------------------------------------------------------
(* Ranking files: GameMasterNode.saveRankingData and loadRankingData *)

Categories == << "leads", "closers", "switches", "chargers", "attackers" >>

FileNames == { Categories[k] : k \in 1..Len(Categories) } \cup {"overall", "consistency"}

\* `null`, which is what JSON.stringify writes for NaN
Null == 0 - 2

NoFile == [exists |-> FALSE, data |-> << >>]

File(data) == [exists |-> TRUE, data |-> data]

NoFiles == [f \in FileNames |-> NoFile]

\* No call of loadRankingData yet
NoLoad == [category |-> "none", result |-> NoFile]

\* JSON.stringify followed by JSON.parse, on a score
Json(score) == IF score = NaN THEN Null ELSE score

\* What a ranking file keeps of an entry, as the later stages read it
SavedEntry(e) ==
    [speciesId |-> e.speciesId, score |-> Json(e.score),
     matchups |-> e.matchups, counters |-> e.counters]

\* GameMasterNode.saveRankingData, were the file not written
SaveSkipped(files, category, data) == files

\* GameMasterNode.saveRankingData: the file of the category is replaced
saveRankingData(files, category, data) ==
    [files EXCEPT ![category] = File([k \in 1..Len(data) |-> SavedEntry(data[k])])]

---------------------------------------------------------------------------
(* The runs the model explores *)

\* A run of the engine: the cup and bracket asked for, what loadRankingData and
\* loadOverrides find, the scenario list of the ranker, the official ranking
\* files under the data path, the progress callback and the resolver
Run(cup, lg, rankingData, overrideData, scenarios) ==
    [cup |-> cup, league |-> lg, rankingData |-> rankingData,
     overrideData |-> overrideData, scenarios |-> scenarios,
     official |-> NoFiles, callback |-> "returns", resolver |-> "decisive"]

AllSlugs == {"leads", "closers", "switches", "chargers", "attackers"}

\* One run per scenario: the ranker is built with a one-scenario list
RunsOver(cup, lg, rankingData, overrideData, slugs) ==
    { Run(cup, lg, rankingData, overrideData, << ScenarioBySlug(sl) >>) : sl \in slugs }

Runs ==
    RunsOver("mycup", 1500, PriorUsage, OverridesNone, {"closers"})
    \cup RunsOver("custom", 1500, PriorNone, OverridesNone, AllSlugs)
    \cup RunsOver("custom", 1500, PriorSkewed, OverridesNone, AllSlugs)
    \cup RunsOver("custom", 1500, PriorUsage, OverridesNone, {"switches"})
    \cup RunsOver("lowstat", 1500, PriorNone, OverridesNone, {"switches", "attackers"})
    \cup RunsOver("fighters", 1500, PriorNone, OverridesNone, {"leads", "closers"})
    \cup RunsOver("elite", 1500, PriorUsage, OverridesOne, AllSlugs)
    \cup RunsOver("elite", 1500, PriorUsage, OverridesTwo, {"closers"})
    \cup RunsOver("elite", 1500, PriorUsage, OverridesNone, {"closers"})
    \cup RunsOver("dragons", 2500, PriorNone, OverridesNone, {"leads"})

\* Every cup, bracket, stored ranking and overrides file, with nothing to rank
RosterRuns ==
    { Run(c.name, lg, rd, od, << >>) :
        c \in GmCups, lg \in Leagues, rd \in PriorRankings, od \in OverrideFiles }

NoScenario == Scenario("none", 0, 0, 0, 0)

NoRankObj == [speciesId |-> NoId, rating |-> 0, matches |-> << >>, scores |-> << >>]

NoCup == Cup("none", << >>, << >>, FALSE, FALSE)

NoCall == [pokemon |-> Pokemon(GmPokemon[1], 1500), include |-> << >>, exclude |-> << >>,
           cp |-> 1500, called |-> FALSE, allowed |-> FALSE]

---------------------------------------------------------------------------
(* RankerNode.rankAll and rank as a state machine *)

InitWith(r) ==
    /\ run = r
    /\ pc = "idle"
    /\ league = 0
    /\ cupData = NoCup
    /\ overrides = << >>
    /\ pokemonList = << >>
    /\ targets = << >>
    /\ si = 1
    /\ scenario = NoScenario
    /\ rankings = << >>
    /\ ci = 1
    /\ tn = 1
    /\ rankObj = NoRankObj
    /\ avg = 0
    /\ totalBattles = 0
    /\ pass = 0
    /\ best = 0
    /\ stored = NoFiles
    /\ filt = NoCall
    /\ levelCap = 0
    /\ cache = NoFiles
    /\ loaded = NoLoad

Init == \E r \in Runs : InitWith(r)

\* GameMasterNode.loadRankingData: the output file, else the official file
loadRankingData(files, official, category) ==
    IF files[category].exists THEN files[category] ELSE official[category]

\* GameMasterNode.loadRankingData with its cache, lines 227-245: the cached
\* value when there is one, else what the files hold
LoadCached(cached, files, official, category) ==
    IF cached[category].exists THEN cached[category]
    ELSE loadRankingData(files, official, category)

\* lines 236-238: a value that was found is kept in this.rankings
CacheAfter(cached, files, official, category) ==
    [cached EXCEPT ![category] = LoadCached(cached, files, official, category)]

\* rankAll line 60: what gm.loadRankingData('overall', league, cupName) returns.
\* run.rankingData is what the files hold, the empty list standing for no file.
OverallLoaded ==
    IF cache["overall"].exists THEN cache["overall"]
    ELSE IF run.rankingData = << >> THEN NoFile ELSE File(run.rankingData)

\* rankAll lines 55-57: battle.setLevelCap is called for a cup that names a cap,
\* and the battle keeps the cap it has for any other cup
SetLevelCap(cup, cap) == IF cup.levelCap # 0 THEN cup.levelCap ELSE cap

\* rankAll lines 28-30 and rankOverall lines 11-13, were the cup not asked about
UseOfficialAnyCup(r) == r.official["overall"].exists

\* rankAll lines 28-30 and rankOverall lines 11-13: official overall rankings
\* exist and the cup is not a custom cup
UseOfficial(r) == r.official["overall"].exists /\ ~isCustomCup(r.cup)

\* The official rankings of the scenarios from position k on, saved one by one
RECURSIVE CopyOfficial(_, _, _, _)
CopyOfficial(files, official, scenarios, k) ==
    IF k > Len(scenarios) THEN files
    ELSE LET categoryData == official[scenarios[k].slug]
         IN  CopyOfficial(IF categoryData.exists
                          THEN saveRankingData(files, scenarios[k].slug, categoryData.data)
                          ELSE files,
                          official, scenarios, k + 1)

\* A progress callback that throws ends rankAll or rankOverall at its first
\* call (rankAll lines 31 and 45, rankOverall lines 14 and 27)
ProgressThrows ==
    /\ pc \in {"idle", "done", "copied", "overall"}
    /\ run.callback = "throws"
    /\ pc' = "aborted"
    /\ UNCHANGED << run, gmVars, poolVars, si, rankVars, stored, filt >>

\* rankAll, lines 27-42: the official category rankings are copied
RankAllOfficial ==
    /\ pc = "idle"
    /\ run.callback # "throws"
    /\ UseOfficial(run)
    /\ stored' = CopyOfficial(stored, run.official, run.scenarios, 1)
    /\ pc' = "copied"
    /\ UNCHANGED << run, gmVars, poolVars, si, rankVars, filt >>

\* rankAll, lines 19-68: the cup, the overrides and the two pools
RankAllBegin ==
    /\ pc = "idle"
    /\ run.callback # "throws"
    /\ ~UseOfficial(run)
    /\ league' = run.league
    /\ cupData' = getCupById(run.cup)
    /\ overrides' = loadOverrides(run.league, run.cup, run.overrideData)
    /\ levelCap' = SetLevelCap(getCupById(run.cup), levelCap)
    /\ cache' = [cache EXCEPT !["overall"] = OverallLoaded]
    /\ loaded' = [category |-> "overall", result |-> OverallLoaded]
    /\ LET pools == initPokemonList(run.league, getCupById(run.cup), OverallLoaded.data,
                                    loadOverrides(run.league, run.cup, run.overrideData))
       IN  /\ pokemonList' = pools.pokemonList
           /\ targets' = pools.targets
    /\ pc' = "ready"
    /\ UNCHANGED << run, si, rankVars, stored, filt >>

\* rankAll lines 70-83: the ranker has no scenario, and rankAll returns
RankAllReturn ==
    /\ pc = "ready"
    /\ Len(run.scenarios) = 0
    /\ pc' = "done"
    /\ UNCHANGED << run, gmVars, poolVars, si, rankVars, stored, filt >>

\* rankAll line 76 and rank lines 315-343: rank() starts on the next scenario
RankBegin ==
    /\ pc = "ready"
    /\ si <= Len(run.scenarios)
    /\ scenario' = run.scenarios[si]
    /\ totalBattles' = 0
    /\ pass' = 0
    /\ best' = 0
    /\ avg' = 0
    /\ tn' = 1
    /\ IF Len(pokemonList) = 0 \/ Len(targets) = 0
       THEN /\ rankings' = [i \in 1..Len(pokemonList) |->
                               CloseRankObj(NewRankObj(pokemonList[i]), 0, Len(targets))]
            /\ ci' = Len(pokemonList) + 1
            /\ rankObj' = NoRankObj
            /\ pc' = "weight"
       ELSE /\ rankings' = << >>
            /\ ci' = 1
            /\ rankObj' = NewRankObj(pokemonList[1])
            /\ pc' = "battles"
    /\ UNCHANGED << run, gmVars, poolVars, si, stored, filt >>

\* lines 346, 432-445: the pairing (ci, tn) is recorded; the loops move on
PairDone(obj, sum) ==
    IF tn < Len(targets)
    THEN /\ rankObj' = obj
         /\ avg' = sum
         /\ tn' = tn + 1
         /\ UNCHANGED << rankings, ci, pc >>
    ELSE /\ rankings' = Append(rankings, CloseRankObj(obj, sum, Len(targets)))
         /\ avg' = 0
         /\ tn' = 1
         /\ ci' = ci + 1
         /\ IF ci < Len(pokemonList)
            THEN rankObj' = NewRankObj(pokemonList[ci + 1]) /\ pc' = pc
            ELSE rankObj' = NoRankObj /\ pc' = "weight"

\* lines 353-370: the pairing is taken over from the mirrored one
ReusePair ==
    /\ pc = "battles"
    /\ CanReuse(scenario, rankings, ci, tn, pokemonList, targets)
    /\ LET m == MirrorOf(targets[tn], rankings[tn].matches[ci])
       IN  PairDone([rankObj EXCEPT !.matches = Append(@, m)],
                    avg + AvgGain(pokemonList[ci], targets[tn], m.adjRating))
    /\ UNCHANGED << run, gmVars, poolVars, si, scenario, totalBattles, pass, best, stored,
                    filt >>

\* lines 373-431: the pairing is simulated
SimulatePair ==
    /\ pc = "battles"
    /\ ~CanReuse(scenario, rankings, ci, tn, pokemonList, targets)
    /\ totalBattles' = totalBattles + 1
    /\ \E out \in SimOutcomes(pokemonList[ci], targets[tn], scenario.shields) :
          LET m == MatchOf(pokemonList[ci], targets[tn], scenario.shields, out)
          IN  PairDone([rankObj EXCEPT !.matches = Append(@, m)],
                       avg + AvgGain(pokemonList[ci], targets[tn], m.adjRating))
    /\ UNCHANGED << run, gmVars, poolVars, si, scenario, pass, best, stored, filt >>

\* weightMatchups, lines 497-564: one pass of the solver
WeightStep ==
    /\ pc = "weight"
    /\ pass < Iterations(cupData)
    /\ rankings' = WeightPass(rankings, pass, scenario, pokemonList, targets)
    /\ pass' = pass + 1
    /\ best' = BestScore(rankings, pass)
    /\ UNCHANGED << run, gmVars, pc, poolVars, si, scenario, ci, tn, rankObj, avg, totalBattles,
                    stored, filt >>

\* rank line 453 and rankAll lines 77-80: the scenario's rankings are final
Finalize ==
    /\ pc = "weight"
    /\ pass = Iterations(cupData)
    /\ rankings' = finalizeRankings(rankings, pokemonList, scenario)
    /\ stored' = saveRankingData(stored, scenario.slug,
                                 finalizeRankings(rankings, pokemonList, scenario))
    /\ si' = si + 1
    /\ pc' = IF si < Len(run.scenarios) THEN "ready" ELSE "done"
    /\ UNCHANGED << run, gmVars, poolVars, scenario, ci, tn, rankObj, avg, totalBattles, pass,
                    best, filt >>

Next ==
    \/ RankAllBegin
    \/ RankBegin
    \/ ReusePair
    \/ SimulatePair
    \/ WeightStep
    \/ Finalize

Spec == Init /\ [][Next]_vars

---------------------------------------------------------------------------
(* checkFilters on its own: one call with drawn arguments *)

IncludeAtoms ==
    { TypeRule({"water", "fighting"}),
      IdRule({<<"medicham">>, <<"smeargle">>}),
      IdShadowRule({<<"medicham">>}),
      Scoped(IdRule({<<"pikachu">>}), {2500}),
      MoveRule({"COUNTER"}) }

ExcludeAtoms ==
    { TagRule({"shadow"}),
      TypeRule({"psychic"}),
      IdRule({<<"medicham">>}),
      DexRule(1, 200),
      Scoped(MoveRule({"LICK"}), {1500}) }

SeqsUpTo(atoms, n) == UNION { [1..k -> atoms] : k \in 0..n }

FilterCalls ==
    { [pokemon |-> Pokemon(GmPokemon[k], cp), include |-> inc, exclude |-> exc, cp |-> cp,
       called |-> FALSE, allowed |-> FALSE] :
        k \in 1..Len(GmPokemon), cp \in {1500, 2500},
        inc \in SeqsUpTo(IncludeAtoms, MaxInclude),
        exc \in SeqsUpTo(ExcludeAtoms, MaxExclude) }

InitFilters ==
    /\ run = Run("none", 0, << >>, << >>, << >>)
    /\ pc = "filters"
    /\ league = 0
    /\ cupData = NoCup
    /\ overrides = << >>
    /\ pokemonList = << >>
    /\ targets = << >>
    /\ si = 1
    /\ scenario = NoScenario
    /\ rankings = << >>
    /\ ci = 1
    /\ tn = 1
    /\ rankObj = NoRankObj
    /\ avg = 0
    /\ totalBattles = 0
    /\ pass = 0
    /\ best = 0
    /\ stored = NoFiles
    /\ filt \in FilterCalls
    /\ levelCap = 0
    /\ cache = NoFiles
    /\ loaded = NoLoad

\* checkFilters(pokemon, include, exclude, cp) is called and returns
CheckFiltersCall ==
    /\ pc = "filters"
    /\ ~filt.called
    /\ filt' = [filt EXCEPT !.called = TRUE,
                            !.allowed = checkFilters(filt.pokemon, filt.include,
                                                     filt.exclude, filt.cp)]
    /\ UNCHANGED << run, gmVars, pc, poolVars, si, rankVars, stored >>

NextFilters == CheckFiltersCall

SpecFilters == InitFilters /\ [][NextFilters]_vars

---------------------------------------------------------------------------
(* initPokemonList on its own: every cup, bracket, stored ranking, overrides file *)

InitRoster == \E r \in RosterRuns : InitWith(r)

NextRoster == RankAllBegin

SpecRoster == InitRoster /\ [][NextRoster]_vars

---------------------------------------------------------------------------
(* Properties of the Battle Orchestrator *)

\* The three conditions of the mirror reuse
Symmetric ==
    /\ Len(pokemonList) = Len(targets)
    /\ scenario.shields[1] = scenario.shields[2]
    /\ scenario.energy[1] = scenario.energy[2]

\* The loops of rank() are over and the solver has not started
BattlesOver == pc = "weight" /\ pass = 0

\* C1: when the pools have the same size and the scenario gives both sides the
\* same shields and the same energy-turns, the simulator ran n(n+1)/2 times for
\* n contestants, the pairings with target index >= candidate index were
\* simulated, and every pairing (i, t) with t < i is the pairing (t, i) with the
\* two sides swapped; otherwise every candidate x target pairing was simulated.
C1_MirrorReuse ==
    BattlesOver =>
        /\ \A i \in 1..Len(rankings) : Len(rankings[i].matches) = Len(targets)
        /\ IF Symmetric
           THEN /\ 2 * totalBattles = Len(pokemonList) * (Len(pokemonList) + 1)
                /\ \A i \in 1..Len(rankings) : \A t \in 1..Len(targets) :
                      LET m == rankings[i].matches[t]
                      IN  IF t < i
                          THEN LET o == rankings[t].matches[i]
                               IN  /\ ~m.simulated
                                   /\ m.rating = o.opRating
                                   /\ m.opRating = o.rating
                                   /\ m.adjRating = o.adjOpRating
                                   /\ m.adjOpRating = o.adjRating
                                   /\ m.moveUsage = o.oppMoveUsage
                                   /\ m.oppMoveUsage = o.moveUsage
                          ELSE m.simulated
           ELSE /\ totalBattles = Len(pokemonList) * Len(targets)
                /\ \A i \in 1..Len(rankings) : \A t \in 1..Len(targets) :
                      rankings[i].matches[t].simulated

\* Three contestants in a symmetric scenario: six simulations, three reuses
C1_Witness ==
    /\ BattlesOver
    /\ Symmetric
    /\ Len(pokemonList) = 3
    /\ totalBattles = 6
    /\ ~rankings[3].matches[1].simulated
    /\ rankings[3].matches[1].rating # rankings[3].matches[1].opRating

\* C2: a pairing of a candidate with itself adds nothing to the candidate's
\* score: the initial average is the sum over the other pairings only, and after
\* every solver pass the pairing's weight and weighted rating are both 0.
C2_SelfPairingIgnored ==
    /\ BattlesOver =>
          \A i \in 1..Len(rankings) :
              LET others == [t \in 1..Len(targets) |->
                                IF targets[t].speciesId = pokemonList[i].speciesId THEN 0
                                ELSE rankings[i].matches[t].adjRating]
                  divisor == IF Len(targets) = 1 THEN 1 ELSE Len(targets) - 1
              IN  Len(targets) > 0 =>
                      rankings[i].rating = 10 * (SeqSum(others) \div (10 * divisor))
    /\ \A i \in 1..Len(rankings) : \A t \in 1..Len(rankings[i].matches) :
          rankings[i].matches[t].opponent = rankings[i].speciesId =>
              /\ rankings[i].matches[t].weight = 0
              /\ rankings[i].matches[t].score = 0

\* The second pass of a switches run is over; a contestant whose weightModifier
\* is not 1 lost its self-pairing badly, and the pairing still weighs nothing
C2_Witness ==
    /\ pc = "weight"
    /\ pass >= 2
    /\ scenario.slug = "switches"
    /\ \E i \in 1..Len(rankings) : \E t \in 1..Len(targets) :
          /\ targets[t].speciesId = pokemonList[i].speciesId
          /\ targets[t].weightModifier # 1000
          /\ targets[t].weightModifier > 0
          /\ rankings[i].matches[t].adjRating < 5000
          /\ rankings[i].matches[t].weight = 0
          /\ rankings[i].scores[pass + 1] > 0

---------------------------------------------------------------------------
(* Properties of the Scenario Finalizer and the Iterative Weight Solver *)

\* C3: once a scenario with a non-empty pool is finalized, the first entry's
\* score is exactly 100.0 and every entry's score lies in [0, 100].
C3_TopIsHundred ==
    (pc = "done" /\ Len(rankings) > 0) =>
        /\ rankings[1].score = 1000
        /\ \A k \in 1..Len(rankings) : rankings[k].score >= 0 /\ rankings[k].score <= 1000

\* C8: every cup registered through registerCustomCup is ranked with 7 solver
\* passes, every other cup with 1.
C8_CustomCupsSevenPasses ==
    pc = "done" => pass = (IF isCustomCup(cupData.name) THEN 7 ELSE 1)

---------------------------------------------------------------------------
(* Properties of the eligibility rules *)

\* The call's include list holds an `id` rule of the bracket that names the contestant
IdIncluded ==
    \E k \in 1..Len(filt.include) :
        /\ filt.include[k].filterType = "id"
        /\ filt.cp \in filt.include[k].leagues
        /\ \/ filt.pokemon.speciesId \in filt.include[k].ids
           \/ /\ filt.include[k].includeShadows
              /\ Replace(Replace(filt.pokemon.speciesId, "_shadow"), "_xs")
                    \in filt.include[k].ids

\* The call's exclude list holds a rule of the bracket, of one of the given
\* kinds, that the contestant matches
ExcludedBy(kinds) ==
    \E k \in 1..Len(filt.exclude) :
        LET f == filt.exclude[k]
            p == filt.pokemon
        IN  /\ f.filterType \in kinds
            /\ filt.cp \in f.leagues
            /\ CASE f.filterType = "type" -> p.types[1] \in f.values \/ p.types[2] \in f.values
                 [] f.filterType = "dex"  -> f.lo <= p.dex /\ p.dex <= f.hi
                 [] f.filterType = "tag"  -> f.values \cap p.tags # {}
                 [] f.filterType = "move" -> \E mv \in f.values : knowsMove(p, mv)
                 [] OTHER -> \/ p.speciesId \in f.ids
                             \/ Replace(Replace(p.speciesId, "_shadow"), "_xs") \in f.ids

\* The contestant matches no include rule other than `id` rules
NoOtherIncludeMatch ==
    \A k \in 1..Len(filt.include) :
        filt.include[k].filterType # "id" =>
            ~RuleMatches(filt.pokemon, filt.include[k], TRUE)

\* C4: a contestant named by an `id` include rule of a list of more than one
\* rule is admitted, whatever else it matches: none of the other include rules,
\* or a type, dex, tag or move exclude rule.
C4_IdIncludeAdmits ==
    (filt.called /\ Len(filt.include) > 1 /\ IdIncluded) => filt.allowed

\* Named by an `id` rule, matching no other include rule, matching a non-identity
\* exclude rule, and admitted
C4_Witness ==
    /\ filt.called
    /\ Len(filt.include) > 1
    /\ IdIncluded
    /\ \E k \in 1..Len(filt.include) : filt.include[k].filterType # "id"
    /\ NoOtherIncludeMatch
    /\ ExcludedBy({"type", "dex", "tag", "move"})
    /\ filt.allowed

\* C6: a contestant that no `id` include rule names and that matches an exclude
\* rule of the bracket, of whatever kind, is not admitted.
C6_ExcludeWins ==
    (filt.called /\ ~IdIncluded /\ ExcludedBy({"type", "dex", "tag", "id", "move"}))
        => ~filt.allowed

\* Every include rule matched, an `id` exclude rule matched, not admitted
C6_Witness ==
    /\ filt.called
    /\ ~IdIncluded
    /\ Len(filt.include) > 0
    /\ \A k \in 1..Len(filt.include) :
          /\ filt.cp \in filt.include[k].leagues
          /\ RuleMatches(filt.pokemon, filt.include[k], TRUE)
    /\ ExcludedBy({"id"})
    /\ ~filt.allowed

---------------------------------------------------------------------------
(* Properties of the Roster Builder *)

\* The pools are built
PoolsBuilt == pc = "ready"

\* C5: in a cup that keeps the stat threshold, no roster entry whose stat product
\* is under the bracket's threshold (0, 1370, 2800, or 4900 for the other caps)
\* is in the pool, unless it carries the opt-in tag of that very cap or the mega
\* tag; a matching `id` include rule makes no difference.
C5_ThresholdHolds ==
    (PoolsBuilt /\ ~cupData.includeLowStatProduct) =>
        \A k \in 1..Len(GmPokemon) :
            LET p == GmPokemon[k]
                st == p.stats[league]
                threshold == CASE league = 500  -> 0
                               [] league = 1500 -> 1370
                               [] league = 2500 -> 2800
                               [] OTHER -> 4900
                optIn == CASE league = 1500  -> "include1500"
                           [] league = 2500  -> "include2500"
                           [] league = 10000 -> "include10000"
                           [] OTHER -> "no such tag"
            IN  (/\ st.hp * st.atk * st.def < threshold * 1000
                 /\ optIn \notin p.tags
                 /\ "mega" \notin p.tags) =>
                    \A i \in 1..Len(pokemonList) : pokemonList[i].speciesId # p.speciesId

\* smeargle, named by an `id` include rule of its cup, is under the threshold
\* of 2500 and carries the opt-in tag of 1500 only: it is left out
C5_Witness ==
    /\ PoolsBuilt
    /\ league = 2500
    /\ ~cupData.includeLowStatProduct
    /\ checkFilters(Pokemon(Species(<<"smeargle">>), league),
                    cupData.include, cupData.exclude, league)
    /\ \E k \in 1..Len(cupData.include) :
          /\ cupData.include[k].filterType = "id"
          /\ <<"smeargle">> \in cupData.include[k].ids
    /\ Len(pokemonList) > 0
    /\ \A i \in 1..Len(pokemonList) : pokemonList[i].speciesId # <<"smeargle">>

\* C7: every admitted contestant is in the candidate pool exactly once; the
\* target pool is the candidate pool itself when the cup does not filter targets,
\* else the candidates of weightModifier > 1 in the same order; so when the two
\* pools have the same size they hold the same contestant at every index.
C7_Pools ==
    PoolsBuilt =>
        /\ \A k \in 1..Len(GmPokemon) :
              Cardinality({ i \in 1..Len(pokemonList) :
                              pokemonList[i].speciesId = GmPokemon[k].speciesId })
                 = IF Admitted(Pokemon(GmPokemon[k], league), league, cupData) THEN 1 ELSE 0
        /\ LET Heavy(p) == p.weightModifier > 1000
           IN  targets = IF cupData.filterTargets THEN SelectSeq(pokemonList, Heavy)
                         ELSE pokemonList
        /\ Len(targets) = Len(pokemonList) =>
              \A n \in 1..Len(targets) : targets[n] = pokemonList[n]

\* A cup that filters targets kept some candidates out of the target pool
C7_Witness ==
    /\ PoolsBuilt
    /\ cupData.filterTargets
    /\ Len(targets) > 0
    /\ Len(targets) < Len(pokemonList)
    /\ \E i \in 1..Len(pokemonList) :
          pokemonList[i].weightModifier <= 1000 /\ pokemonList[i].weightModifier > 0

---------------------------------------------------------------------------
(* Whole numbers of any size, least significant limb first, base 10000 *)

BigOne == << 1 >>

\* b * m + carry for a small m
RECURSIVE BigMulSmall(_, _, _)
BigMulSmall(b, m, carry) ==
    IF m = 0 THEN << >>
    ELSE IF b = << >> THEN (IF carry = 0 THEN << >> ELSE << carry >>)
    ELSE LET v == Head(b) * m + carry
         IN  << v % 10000 >> \o BigMulSmall(Tail(b), m, v \div 10000)

\* b * m^e
RECURSIVE BigMulPow(_, _, _)
BigMulPow(b, m, e) == IF e = 0 THEN b ELSE BigMulPow(BigMulSmall(b, m, 0), m, e - 1)

\* a <= b
RECURSIVE BigLeq(_, _)
BigLeq(a, b) ==
    IF Len(a) # Len(b) THEN Len(a) < Len(b)
    ELSE IF a = << >> THEN TRUE
    ELSE IF a[Len(a)] # b[Len(b)] THEN a[Len(a)] < b[Len(b)]
    ELSE BigLeq(SubSeq(a, 1, Len(a) - 1), SubSeq(b, 1, Len(b) - 1))

---------------------------------------------------------------------------
(* RankerOverallNode.rankOverall, lines 26-115 *)

\* A number read from a ranking file, as arithmetic takes it: null counts as 0
Num(score) == IF score = Null THEN 0 ELSE score

\* line 80, were the score taken as it is
Unfloored(score) == Num(score)

\* line 80: Math.max(s, 0.1), in tenths
FlooredScore(score) == Max(Num(score), 1)

\* lines 33-40: the category rankings that exist, in the order of `categories`
RECURSIVE LoadCategories(_, _)
LoadCategories(files, k) ==
    IF k > Len(Categories) THEN << >>
    ELSE (IF files[Categories[k]].exists
          THEN << [category |-> Categories[k], data |-> files[Categories[k]].data] >>
          ELSE << >>) \o LoadCategories(files, k + 1)

\* line 48: categoryData.leads || Object.values(categoryData)[0]
\* (`leads` is loaded first, so it is the first available category when it exists;
\* an empty array is truthy)
BaseCategory(categoryData) == categoryData[1].data

\* lines 66-74: the scores of a contestant in the categories that list it
RECURSIVE GatherScores(_, _, _)
GatherScores(id, categoryData, k) ==
    IF k > Len(categoryData) THEN << >>
    ELSE LET i == FindBySpecies(categoryData[k].data, id, 1)
         IN  (IF i > 0 THEN << categoryData[k].data[i].score >> ELSE << >>)
                 \o GatherScores(id, categoryData, k + 1)

\* b times the product of the floored scores
RECURSIVE BigMulAll(_, _)
BigMulAll(b, scores) ==
    IF scores = << >> THEN b
    ELSE BigMulAll(BigMulSmall(b, FlooredScore(Head(scores)), 0), Tail(scores))

\* b times the e-th power of the product of the floored scores
RECURSIVE BigPowAll(_, _, _)
BigPowAll(b, scores, e) ==
    IF e = 0 THEN b ELSE BigPowAll(BigMulAll(b, scores), scores, e - 1)

\* lines 79-82: the geometric mean of `a` is at most that of `b`, both non-empty:
\* product(a)^(1/|a|) <= product(b)^(1/|b|)
GeoLeq(a, b) == BigLeq(BigPowAll(BigOne, a, Len(b)), BigPowAll(BigOne, b, Len(a)))

\* lines 88-94, were the lists taken from the base category whichever it is
LeadsOrBase(categoryData) == categoryData[1].data

\* line 89: categoryData.leads, an empty list standing for its absence
\* (`leads` is loaded first, so it can only be the first category)
LeadsData(categoryData) ==
    IF categoryData[1].category = "leads" THEN categoryData[1].data ELSE << >>

\* lines 88-94: matchups and counters of the leads entry of the contestant
KeyLists(id, categoryData) ==
    LET leads == LeadsData(categoryData)
        i == FindBySpecies(leads, id, 1)
    IN  IF i > 0 THEN [matchups |-> leads[i].matchups, counters |-> leads[i].counters]
        ELSE [matchups |-> << >>, counters |-> << >>]

\* lines 52-97: one overall entry per entry of the base category
OverallEntries(categoryData) ==
    LET base == BaseCategory(categoryData)
        all  == [k \in 1..Len(base) |->
                    [speciesId |-> base[k].speciesId,
                     scores    |-> GatherScores(base[k].speciesId, categoryData, 1),
                     matchups  |-> KeyLists(base[k].speciesId, categoryData).matchups,
                     counters  |-> KeyLists(base[k].speciesId, categoryData).counters,
                     score     |-> 0]]
        Listed(e) == Len(e.scores) > 0
    IN  SelectSeq(all, Listed)

\* line 100: rankings.sort((a, b) => b.score - a.score), a stable sort
RECURSIVE InsertByGeo(_, _)
InsertByGeo(sorted, e) ==
    IF sorted = << >> THEN << e >>
    ELSE IF GeoLeq(e.scores, Head(sorted).scores)
         THEN << Head(sorted) >> \o InsertByGeo(Tail(sorted), e)
         ELSE << e >> \o sorted

RECURSIVE SortByGeo(_)
SortByGeo(list) ==
    IF list = << >> THEN << >>
    ELSE InsertByGeo(SortByGeo(SubSeq(list, 1, Len(list) - 1)), list[Len(list)])

\* (2f - 1) / 2000 <= mean(scores) / mean(top): f - 1/2 <= 1000 * the ratio
ShareAtLeast(f, scores, top) ==
    LET kk == Len(scores) * Len(top)
    IN  BigLeq(BigMulPow(BigPowAll(BigOne, top, Len(scores)), 2 * f - 1, kk),
               BigMulPow(BigPowAll(BigOne, scores, Len(top)), 2000, kk))

\* The largest f in lo..hi-1 with ShareAtLeast(f), given that it holds at lo
\* and fails at hi
RECURSIVE ShareBetween(_, _, _, _)
ShareBetween(lo, hi, scores, top) ==
    IF hi - lo <= 1 THEN lo
    ELSE LET mid == (lo + hi) \div 2
         IN  IF ShareAtLeast(mid, scores, top) THEN ShareBetween(mid, hi, scores, top)
             ELSE ShareBetween(lo, mid, scores, top)

\* lines 103-105: Math.round(score / highest * 1000) / 10, in tenths, where
\* highest = rankings[0]?.score || 1.  A top mean of 0 leaves every mean at 0.
OverallScore(scores, top) ==
    IF BigPowAll(BigOne, top, 1) = << >> THEN 0
    ELSE ShareBetween(0, 1001, scores, top)

\* lines 29-106: the overall ranking computed from the category rankings
OverallRankings(categoryData) ==
    LET sorted == SortByGeo(OverallEntries(categoryData))
    IN  [k \in 1..Len(sorted) |->
            [sorted[k] EXCEPT !.score = OverallScore(sorted[k].scores, sorted[1].scores)]]

---------------------------------------------------------------------------
(* RankerOverallNode.rankConsistency, lines 118-175 *)

\* lines 140-151, were the deviation not subtracted: the mean, in 960ths of a tenth
ConsistencyScoreMean(scores) ==
    (960 * SeqSum([j \in 1..Len(scores) |-> Num(scores[j])])) \div Len(scores)

\* lines 140-151: max(0, mean - stdDev / 2) of scores given in tenths, in 960ths
\* of a tenth; the standard deviation is taken to an eighth of a tenth
ConsistencyScore(scores) ==
    LET k   == Len(scores)
        sum == SeqSum([j \in 1..k |-> Num(scores[j])])
        sq  == SeqSum([j \in 1..k |-> Num(scores[j]) * Num(scores[j])])
        sd8 == ISqrt(64 * (k * sq - sum * sum))
    IN  Max(0, ((16 * sum - sd8) * 60) \div k)

\* lines 127-160
ConsistencyEntries(categoryData) ==
    LET base == BaseCategory(categoryData)
        all  == [k \in 1..Len(base) |->
                    [speciesId |-> base[k].speciesId,
                     scores    |-> GatherScores(base[k].speciesId, categoryData, 1),
                     matchups  |-> base[k].matchups,
                     counters  |-> base[k].counters,
                     raw       |-> 0,
                     score     |-> 0]]
        Twice(e) == Len(e.scores) >= 2
        kept == SelectSeq(all, Twice)
    IN  [k \in 1..Len(kept) |-> [kept[k] EXCEPT !.raw = ConsistencyScore(kept[k].scores)]]

\* lines 163-169: sorted by score, then Math.round(score / highest * 1000) / 10
ConsistencyRankings(categoryData) ==
    LET sorted  == SortByScore(ConsistencyEntries(categoryData))
        highest == IF sorted = << >> \/ sorted[1].raw = 0 THEN 9600 ELSE sorted[1].raw
    IN  [k \in 1..Len(sorted) |->
            [sorted[k] EXCEPT !.score = (2000 * sorted[k].raw + highest) \div (2 * highest)]]

---------------------------------------------------------------------------
(* rankOverall on its own: the category files are drawn, then combined *)

\* An entry of a ranking file, as the later stages read it.  Its key matchups
\* and counters name one opponent each, with ratings that follow the score, so
\* that two files hold the same lists for a contestant only with the same score
Entry(id, score) ==
    [speciesId |-> id, score |-> score,
     matchups |-> << [opponent |-> <<"pikachu">>, rating |-> 5010 + 4 * Num(score)] >>,
     counters |-> << [opponent |-> <<"mewtwo">>, rating |-> 4990 - 4 * Num(score)] >>]

\* Category rankings as rank() leaves them, and as earlier runs may have
CategoryFiles ==
    { NoFile,
      File(<< >>),
      File(<< Entry(<<"azumarill">>, 1000), Entry(<<"medicham">>, 800),
              Entry(<<"smeargle">>, 0) >>),
      File(<< Entry(<<"medicham">>, 1000), Entry(<<"azumarill">>, 455) >>),
      File(<< Entry(<<"smeargle">>, 1000), Entry(<<"azumarill">>, 1000),
              Entry(<<"medicham">>, 1) >>),
      File(<< Entry(<<"azumarill">>, Null), Entry(<<"medicham">>, 0) >>) }

SparseFiles ==
    { NoFile,
      File(<< Entry(<<"medicham">>, 1000), Entry(<<"azumarill">>, 455) >>),
      File(<< Entry(<<"azumarill">>, 455), Entry(<<"medicham">>, 800) >>) }

StoredCategories ==
    { [f \in FileNames |->
          CASE f = "leads"     -> a
            [] f = "closers"   -> b
            [] f = "switches"  -> c
            [] f = "chargers"  -> d
            [] f = "attackers" -> e
            [] OTHER -> NoFile] :
        a \in CategoryFiles, b \in CategoryFiles, c \in CategoryFiles,
        d \in SparseFiles, e \in SparseFiles }

InitOverall ==
    /\ run = Run("mycup", 1500, << >>, << >>, << >>)
    /\ pc = "overall"
    /\ league = 1500
    /\ cupData = getCupById("mycup")
    /\ overrides = << >>
    /\ pokemonList = << >>
    /\ targets = << >>
    /\ si = 1
    /\ scenario = NoScenario
    /\ rankings = << >>
    /\ ci = 1
    /\ tn = 1
    /\ rankObj = NoRankObj
    /\ avg = 0
    /\ totalBattles = 0
    /\ pass = 0
    /\ best = 0
    /\ stored \in StoredCategories
    /\ filt = NoCall
    /\ levelCap = 0
    /\ cache = NoFiles
    /\ loaded = NoLoad

\* What loadRankingData finds for each file name
Visible == [f \in FileNames |-> LoadCached(cache, stored, run.official, f)]

\* rankOverall lines 29-40: every category is loaded, and what is found is cached
CacheCategories ==
    [f \in FileNames |-> IF f \in { Categories[k] : k \in 1..Len(Categories) }
                         THEN Visible[f] ELSE cache[f]]

\* The last of those loads
LastCategoryLoad ==
    [category |-> Categories[Len(Categories)], result |-> Visible[Categories[Len(Categories)]]]

\* rankOverall is called: on its own, or after rankAll has returned
OverallCalled == pc \in {"overall", "done", "copied"}

\* rankOverall, lines 10-24: the official overall ranking is copied, and the
\* official consistency ranking when there is one
RankOverallOfficial ==
    /\ OverallCalled
    /\ run.callback # "throws"
    /\ UseOfficial(run)
    /\ LET withOverall == saveRankingData(stored, "overall", run.official["overall"].data)
       IN  stored' = IF run.official["consistency"].exists
                     THEN saveRankingData(withOverall, "consistency",
                                          run.official["consistency"].data)
                     ELSE withOverall
    /\ pc' = "overallCopied"
    /\ UNCHANGED << run, gmVars, poolVars, si, rankVars, filt >>

\* rankOverall, lines 42-45: there is no category ranking to combine
RankOverallNothing ==
    /\ OverallCalled
    /\ run.callback # "throws"
    /\ ~UseOfficial(run)
    /\ LoadCategories(Visible, 1) = << >>
    /\ cache' = CacheCategories
    /\ loaded' = LastCategoryLoad
    /\ pc' = "overallNone"
    /\ UNCHANGED << run, poolVars, si, rankVars, stored, filt >>

\* rankOverall, lines 47-114: the overall and the consistency rankings are saved
RankOverall ==
    /\ OverallCalled
    /\ run.callback # "throws"
    /\ ~UseOfficial(run)
    /\ LoadCategories(Visible, 1) # << >>
    /\ LET categoryData == LoadCategories(Visible, 1)
       IN  stored' = [stored EXCEPT
                         !["overall"] = File(OverallRankings(categoryData)),
                         !["consistency"] = File(ConsistencyRankings(categoryData))]
    /\ cache' = CacheCategories
    /\ loaded' = LastCategoryLoad
    /\ pc' = "overallDone"
    /\ UNCHANGED << run, poolVars, si, rankVars, filt >>

NextOverall == RankOverallNothing \/ RankOverall

SpecOverall == InitOverall /\ [][NextOverall]_vars

---------------------------------------------------------------------------
(* Properties of the overall ranking *)

\* C10: when rankOverall recomputes, an entry's overall score is the geometric
\* mean of its scores over the available categories that list it, each score
\* floored at 0.1, divided by the highest such mean, times 100, rounded to one
\* decimal: with m the mean, top the highest mean and F the score in tenths,
\* F - 1/2 <= 1000 m / top < F + 1/2.  A zero score therefore leaves the result
\* above 0, and the first entry's score is exactly 100.0.
C10_GeometricMean ==
    pc = "overallDone" =>
        LET out == stored["overall"].data
            Lists(c, id) == /\ stored[c].exists
                            /\ \E i \in 1..Len(stored[c].data) : stored[c].data[i].speciesId = id
            ScoreIn(c, id) ==
                LET i == CHOOSE j \in 1..Len(stored[c].data) :
                            /\ stored[c].data[j].speciesId = id
                            /\ \A h \in 1..(j - 1) : stored[c].data[h].speciesId # id
                    sc == stored[c].data[i].score
                IN  IF sc = Null \/ sc < 1 THEN 1 ELSE sc
            Factor(c, id) == IF Lists(c, id) THEN ScoreIn(c, id) ELSE 1
            Count(id) == Cardinality({ k \in 1..Len(Categories) : Lists(Categories[k], id) })
            \* (the product of the floored scores of id) ^ e
            Power(id, e) ==
                BigMulPow(BigMulPow(BigMulPow(BigMulPow(BigMulPow(BigOne,
                    Factor("leads", id), e), Factor("closers", id), e),
                    Factor("switches", id), e), Factor("chargers", id), e),
                    Factor("attackers", id), e)
        IN  /\ Len(out) > 0 => out[1].score = 1000
            /\ \A n \in 1..Len(out) :
                  LET id  == out[n].speciesId
                      top == out[1].speciesId
                      kk  == Count(id) * Count(top)
                      F   == out[n].score
                      mine   == BigMulPow(Power(id, Count(top)), 2000, kk)
                      theirs == Power(top, Count(id))
                  IN  /\ F >= 1 /\ F <= 1000
                      /\ BigLeq(BigMulPow(theirs, 2 * F - 1, kk), mine)
                      /\ ~BigLeq(BigMulPow(theirs, 2 * F + 1, kk), mine)

\* Three entries; one of them has a zero (or null) score in a category, is listed
\* in fewer categories than the first entry, and ends strictly between 0.1 and 100
C10_Witness ==
    /\ pc = "overallDone"
    /\ Len(stored["overall"].data) = 3
    /\ stored["overall"].data[1].score = 1000
    /\ \E n \in 2..3 :
          LET e == stored["overall"].data[n]
          IN  /\ e.score > 1 /\ e.score < 1000
              /\ \E j \in 1..Len(e.scores) : e.scores[j] = 0 \/ e.scores[j] = Null
              /\ Len(e.scores) >= 2
              /\ Len(e.scores) < Len(stored["overall"].data[1].scores)

---------------------------------------------------------------------------
(* Properties of the consistency ranking *)

\* The category file c exists and lists the contestant id
ListedIn(c, id) ==
    /\ stored[c].exists
    /\ \E i \in 1..Len(stored[c].data) : stored[c].data[i].speciesId = id

\* The score of the first entry of id in the category file c, null read as 0
FirstScore(c, id) ==
    LET i  == CHOOSE j \in 1..Len(stored[c].data) :
                 /\ stored[c].data[j].speciesId = id
                 /\ \A h \in 1..(j - 1) : stored[c].data[h].speciesId # id
        sc == stored[c].data[i].score
    IN  IF sc = Null THEN 0 ELSE sc

\* The categories that list id, in the order of `categories`
ListingCategories(id) == SelectSeq(Categories, LAMBDA c : ListedIn(c, id))

\* The value before rescaling (in 960ths of a tenth) is max(0, mean - stdDev / 2)
\* of the scores of id, the deviation taken to an eighth of a tenth: with k
\* scores of sum S and sum of squares Q, and D = k Q - S^2 (so stdDev = sqrt(D) / k),
\* the value x gives y = 16 S - k x / 60 with y^2 <= 64 D < (y + 1)^2, or is 0
\* when 2 S <= sqrt(D)
IsConsistencyOf(x, id) ==
    LET cs == ListingCategories(id)
        k  == Len(cs)
        S  == SeqSum([j \in 1..k |-> FirstScore(cs[j], id)])
        Q  == SeqSum([j \in 1..k |-> FirstScore(cs[j], id) * FirstScore(cs[j], id)])
        D  == k * Q - S * S
        y  == 16 * S - (k * x) \div 60
    IN  IF 4 * S * S <= D THEN x = 0
        ELSE /\ x > 0
             /\ (k * x) % 60 = 0
             /\ y >= 0 /\ y <= 40000
             /\ y * y <= 64 * D
             /\ 64 * D < (y + 1) * (y + 1)

\* All the scores of id are one score s
AllScoresAre(id, s) ==
    \A j \in 1..Len(Categories) :
        ListedIn(Categories[j], id) => FirstScore(Categories[j], id) = s

---------------------------------------------------------------------------
(* Properties of rankOverall with category rankings missing *)

\* The number of category rankings that exist
AvailableCount == Cardinality({ k \in 1..Len(Categories) : stored[Categories[k]].exists })

\* C12: with some category rankings missing rankOverall combines those that
\* exist; with none it saves neither an overall nor a consistency ranking; with
\* fewer than two no consistency ranking is saved.
C12_ConsistencyNeedsTwo ==
    /\ pc = "overallNone" =>
          /\ AvailableCount = 0
          /\ ~stored["overall"].exists
          /\ ~stored["consistency"].exists
    /\ pc = "overallDone" =>
          /\ AvailableCount >= 1
          /\ stored["overall"].exists
          /\ AvailableCount < 2 => ~stored["consistency"].exists

---------------------------------------------------------------------------
(* rankAll followed by rankOverall, with official rankings under the data path
   and a progress callback *)

OfficialOverall ==
    File([k \in 1..Len(PriorUsage) |-> Entry(PriorUsage[k].speciesId, PriorUsage[k].score)])

OfficialConsistency == File(<< Entry(<<"azumarill">>, 1000), Entry(<<"medicham">>, 913) >>)

OfficialLeads == File(<< Entry(<<"medicham">>, 1000), Entry(<<"azumarill">>, 455) >>)

OfficialClosers == File(<< Entry(<<"azumarill">>, 1000) >>)

\* The official ranking files a cup and bracket may have
OfficialStores ==
    { [f \in FileNames |->
          CASE f = "overall"     -> o
            [] f = "consistency" -> c
            [] f = "leads"       -> l
            [] f = "closers"     -> d
            [] OTHER -> NoFile] :
        o \in {NoFile, OfficialOverall}, c \in {NoFile, OfficialConsistency},
        l \in {NoFile, OfficialLeads}, d \in {NoFile, OfficialClosers} }

\* absent, returning, or throwing at every call
Callbacks == {"absent", "returns", "throws"}

\* Cups with one contestant under the first two scenarios, cups with none under
\* the whole scenario list, and a ranker without scenarios
PipelineRuns ==
    { Run("fighters", 1500, PriorNone, OverridesNone, SubSeq(RankingScenarios, 1, 2)),
      Run("mycup", 2500, PriorNone, OverridesNone, SubSeq(RankingScenarios, 1, 2)),
      Run("dragons", 2500, PriorNone, OverridesNone, RankingScenarios),
      Run("custom", 2500, PriorNone, OverridesNone, RankingScenarios),
      Run("mycup", 1500, PriorNone, OverridesNone, << >>) }

\* Cups of two and of three contestants under one scenario
PoolRuns ==
    { Run("custom", 1500, PriorNone, OverridesNone, << ScenarioBySlug("leads") >>),
      Run("mycup", 1500, PriorNone, OverridesNone, << ScenarioBySlug("closers") >>) }

\* With no output yet, loadRankingData('overall') finds the official overall
\* ranking when there is one
WithOfficial(r, official, callback) ==
    [r EXCEPT !.official = official, !.callback = callback,
              !.rankingData = IF official["overall"].exists THEN PriorUsage ELSE @]

OfficialRuns ==
    { WithOfficial(r, o, cb) : r \in PipelineRuns, o \in OfficialStores, cb \in Callbacks }
    \cup { WithOfficial(r, o, "absent") :
              r \in PoolRuns, o \in { f \in OfficialStores : ~f["consistency"].exists } }

InitOfficial == \E r \in OfficialRuns : InitWith(r)

NextOfficial ==
    \/ ProgressThrows
    \/ RankAllOfficial
    \/ RankAllBegin
    \/ RankAllReturn
    \/ RankBegin
    \/ ReusePair
    \/ SimulatePair
    \/ WeightStep
    \/ Finalize
    \/ RankOverallOfficial
    \/ RankOverallNothing
    \/ RankOverall

SpecOfficial == InitOfficial /\ [][NextOfficial]_vars

\* The slugs of the ranker's scenarios
ScenarioSlugs == { run.scenarios[k].slug : k \in 1..Len(run.scenarios) }

\* Official overall rankings exist for a cup that is not registered as custom
OfficialApplies == run.official["overall"].exists /\ run.cup \notin GmCustomCups

\* C13: for a cup not registered as custom with official overall rankings,
\* rankAll simulates nothing and saves every available official scenario ranking
\* as it is, and rankOverall saves the official overall ranking, and the
\* official consistency ranking when there is one, as they are; for a custom cup
\* nothing is copied and both are recomputed; rankAll and rankOverall take the
\* same branch.
C13_OfficialShortCircuit ==
    /\ pc \in {"copied", "overallCopied"} =>
          /\ OfficialApplies
          /\ league = 0 /\ pokemonList = << >> /\ targets = << >>
          /\ totalBattles = 0 /\ rankings = << >>
          /\ \A k \in 1..Len(Categories) :
                stored[Categories[k]] = IF Categories[k] \in ScenarioSlugs
                                        THEN run.official[Categories[k]] ELSE NoFile
    /\ pc = "copied" => ~stored["overall"].exists /\ ~stored["consistency"].exists
    /\ pc = "overallCopied" =>
          /\ stored["overall"] = run.official["overall"]
          /\ stored["consistency"] = run.official["consistency"]
    /\ pc \in {"ready", "battles", "weight", "done", "overallDone", "overallNone"} =>
          /\ ~OfficialApplies
          /\ league = run.league
    /\ pc \in {"done", "overallDone", "overallNone"} =>
          \A sl \in ScenarioSlugs : stored[sl].exists
    /\ pc = "overallDone" => stored["overall"].exists

\* The official rankings of a cup that is not custom have been copied: leads,
\* overall and consistency exist, closers does not
C13_Witness ==
    /\ pc = "overallCopied"
    /\ stored["leads"] = OfficialLeads
    /\ ~stored["closers"].exists
    /\ stored["overall"] = OfficialOverall
    /\ stored["consistency"] = OfficialConsistency
    /\ run.callback = "returns"

\* C16: the progress callback never blocks or alters the computation: whatever
\* the callback does, rankAll and rankOverall are not ended by it.
C16_CallbackAdvisory == pc # "aborted"

---------------------------------------------------------------------------
(* Properties of a run with no eligible contestant *)

\* rank() is at work, or rankAll has returned, and the candidate pool is empty
EmptyPoolRanked ==
    /\ pc \in {"ready", "battles", "weight", "done"}
    /\ pokemonList = << >>

\* With an empty candidate pool the target pool is empty, no encounter is
\* simulated, every pass of the solver and the finalizer leave the ranking list
\* empty, and every scenario already ranked has an empty ranking saved
EmptyPoolEmptyRankings ==
    /\ targets = << >>
    /\ pc # "battles"
    /\ totalBattles = 0
    /\ rankings = << >>
    /\ pass <= Iterations(cupData)
    /\ \A k \in 1..(si - 1) : stored[run.scenarios[k].slug] = File(<< >>)
    /\ pc = "done" => si = Len(run.scenarios) + 1

\* C14 as stated: with no eligible roster entry both pools are empty, and for
\* every scenario rank() completes without a non-finite value and returns an
\* empty ranking list, which is saved.
C14_EmptyPoolAllFinite ==
    EmptyPoolRanked =>
        /\ EmptyPoolEmptyRankings
        /\ best \notin {NaN, NegInfinity}

\* C14 amended: with no eligible roster entry both pools are empty, and for every
\* scenario rank() simulates nothing, divides nothing and returns an empty
\* ranking list, which is saved; the one non-finite value is the solver's
\* `bestScore`, -Infinity in every pass, which nothing reads.
C14_EmptyPoolEmptyResult ==
    EmptyPoolRanked =>
        /\ EmptyPoolEmptyRankings
        /\ best = IF pass > 0 THEN NegInfinity ELSE 0

\* A custom cup without contestants has been through the seven passes of all five
\* scenarios, and five empty rankings are saved
C14_Witness ==
    /\ pc = "done"
    /\ pokemonList = << >>
    /\ run.cup = "custom"
    /\ pass = 7
    /\ best = NegInfinity
    /\ \A k \in 1..Len(Categories) : stored[Categories[k]] = File(<< >>)

---------------------------------------------------------------------------
(* Properties of the order of the rankings *)

\* No entry of the list has a higher score than the entry before it; a score
\* that is not a number (NaN, saved as null) compares with no other
NonIncreasing(data) ==
    \A k \in 1..(Len(data) - 1) :
        (data[k].score \notin {NaN, Null} /\ data[k + 1].score \notin {NaN, Null})
            => data[k].score >= data[k + 1].score

\* C15: every ranking the engine computes, the ranking of each scenario, the
\* overall ranking and the consistency ranking, is in the order of non-increasing
\* final score.
C15_SortedByScore ==
    pc \in {"ready", "done", "overallDone"} =>
        /\ NonIncreasing(rankings)
        /\ \A sl \in ScenarioSlugs : NonIncreasing(stored[sl].data)
        /\ NonIncreasing(stored["overall"].data)
        /\ NonIncreasing(stored["consistency"].data)

\* A scenario ranking of three in another order than the pool, with an overall
\* and a consistency ranking of the two entries the official leads ranking lists
C15_Witness ==
    /\ pc = "overallDone"
    /\ Len(rankings) = 3
    /\ rankings[1].speciesId # pokemonList[1].speciesId
    /\ rankings[1].score > rankings[3].score
    /\ Len(stored["overall"].data) = 2
    /\ stored["overall"].data[1].score > stored["overall"].data[2].score
    /\ Len(stored["consistency"].data) = 2
    /\ stored["consistency"].data[1].score > stored["consistency"].data[2].score

---------------------------------------------------------------------------
(* Properties of the pools during a scenario run *)

\* The species of a list, in its order
SpeciesOf(list) == [k \in 1..Len(list) |-> list[k].speciesId]

\* C17: once the pools are built, no step of rank(), of the solver or of the
\* finalizer adds, removes or moves a contestant of either pool; until the
\* finalizer sorts it, the ranking list has the candidates at their pool index,
\* and the finalizer leaves it with the same candidates, one entry each.
C17_PoolsKept ==
    [][ pc # "idle" =>
          /\ pokemonList' = pokemonList
          /\ targets' = targets
          /\ pc' \in {"battles", "weight"} =>
                /\ Len(rankings') <= Len(pokemonList)
                /\ \A i \in 1..Len(rankings') :
                      rankings'[i].speciesId = pokemonList[i].speciesId
          /\ (pc = "weight" /\ pc' # "weight") =>
                /\ Len(rankings') = Len(pokemonList)
                /\ \A i \in 1..Len(pokemonList) :
                      Cardinality({ k \in 1..Len(rankings') :
                          rankings'[k].speciesId = pokemonList[i].speciesId }) = 1
      ]_vars

\* The finalizer has moved the third candidate of the pool to the top of the
\* ranking list, and both pools are as the Roster Builder left them
C17_Witness ==
    /\ pc = "done"
    /\ Len(pokemonList) = 3
    /\ SpeciesOf(pokemonList) = SpeciesOf(targets)
    /\ rankings[1].speciesId = pokemonList[3].speciesId
    /\ pokemonList = initPokemonList(run.league, getCupById(run.cup), run.rankingData,
                                     loadOverrides(run.league, run.cup, run.overrideData)).pokemonList

---------------------------------------------------------------------------
(* The encounters of rank() under a resolver that may run out of time *)

\* The two contestants of the open cup at 2500, under the scenarios that reuse
\* mirrored pairings
TimedRuns ==
    { [Run("all", 2500, PriorNone, OverridesNone, << ScenarioBySlug(sl) >>)
          EXCEPT !.resolver = "timed"] : sl \in {"leads", "closers"} }

InitTimed == \E r \in TimedRuns : InitWith(r)

NextTimed ==
    \/ RankAllBegin
    \/ RankBegin
    \/ ReusePair
    \/ SimulatePair

SpecTimed == InitTimed /\ [][NextTimed]_vars

---------------------------------------------------------------------------
(* Properties of the pairing results, before the solver reshapes them *)

\* The pairings recorded so far: candidate index and target index
RecordedPairs ==
    { << i, n >> \in (1..Len(pokemonList)) \X (1..Len(targets)) :
        \/ i <= Len(rankings) /\ n <= Len(rankings[i].matches)
        \/ pc = "battles" /\ i = ci /\ n <= Len(rankObj.matches) }

\* The result recorded for the pairing of candidate i with target n
MatchAt(i, n) ==
    IF i <= Len(rankings) THEN rankings[i].matches[n] ELSE rankObj.matches[n]

\* The pairing results are as rank() recorded them
Unsolved == pc \in {"battles", "weight"} /\ pass = 0

\* 100 points for each shield the other side spent and each shield the side kept
BonusOf(m, side) ==
    IF side = 1
    THEN 100 * ((scenario.shields[2] - m.out.shields[2]) + m.out.shields[1])
    ELSE 100 * ((scenario.shields[1] - m.out.shields[1]) + m.out.shields[2])

\* C18: in every simulated pairing the side with the strictly higher raw rating
\* has win multiplier 1 and the other side 0, and both have 0 only when the raw
\* ratings are tied at 500; the multiplier shows in the shield-adjusted rating
\* of a side whose shield count is not zero.
C18_HigherRatingWins ==
    Unsolved =>
        \A p \in RecordedPairs :
            LET m  == MatchAt(p[1], p[2])
                r  == m.rating \div 10
                o  == m.opRating \div 10
                a  == m.adjRating \div 10
                ao == m.adjOpRating \div 10
            IN  m.simulated =>
                    /\ r > o => a = r + BonusOf(m, 1) /\ ao = o
                    /\ r < o => a = r /\ ao = o + BonusOf(m, 2)
                    /\ r = o => r = 500 /\ a = r /\ ao = o

\* r = floor((hp / maxHp + (opMaxHp - opHp) / opMaxHp) * 500)
IsRawRating(r, hp, maxHp, opHp, opMaxHp) ==
    /\ r >= 0 /\ r <= 1000
    /\ r * (maxHp * opMaxHp) <= 500 * (hp * opMaxHp + (opMaxHp - opHp) * maxHp)
    /\ 500 * (hp * opMaxHp + (opMaxHp - opHp) * maxHp) < (r + 1) * (maxHp * opMaxHp)

\* C20: in every simulated pairing each side's raw rating is
\* floor((own final hp / own max hp + opponent's hp lost / opponent's max hp) x 500),
\* within 0..1000, and its shield-adjusted rating is the raw rating plus
\* 100 x (opponent's shields spent + own shields left) x its win multiplier, the
\* multipliers being 0 or 1 and not both 1: so it is the raw rating for a side
\* with multiplier 0, and never below the raw rating.
C20_RatingFormula ==
    Unsolved =>
        \A p \in RecordedPairs :
            LET m  == MatchAt(p[1], p[2])
                r  == m.rating \div 10
                o  == m.opRating \div 10
                a  == m.adjRating \div 10
                ao == m.adjOpRating \div 10
                maxHp   == pokemonList[p[1]].stats.hp
                opMaxHp == targets[p[2]].stats.hp
            IN  m.simulated =>
                    /\ m.rating = 10 * r /\ m.opRating = 10 * o
                    /\ m.adjRating = 10 * a /\ m.adjOpRating = 10 * ao
                    /\ IsRawRating(r, m.out.hp[1], maxHp, m.out.hp[2], opMaxHp)
                    /\ IsRawRating(o, m.out.hp[2], opMaxHp, m.out.hp[1], maxHp)
                    /\ \E w \in {<< 0, 0 >>, << 1, 0 >>, << 0, 1 >>} :
                          /\ a = r + BonusOf(m, 1) * w[1]
                          /\ ao = o + BonusOf(m, 2) * w[2]
                    /\ a >= r /\ ao >= o

\* Both sides are left standing with a third of their hp; the target, who did
\* the larger share of damage, kept its shield and made the candidate spend its
\* own: its rating gains 200 points, the candidate's gains none
C20_Witness ==
    /\ Unsolved
    /\ \E p \in RecordedPairs :
          LET m == MatchAt(p[1], p[2])
          IN  /\ m.simulated
              /\ m.out.hp[1] = pokemonList[p[1]].stats.hp \div 3
              /\ m.out.hp[2] = targets[p[2]].stats.hp \div 3
              /\ m.out.shields = << 0, 1 >>
              /\ m.rating < m.opRating
              /\ m.rating % 50 # 0
              /\ m.adjOpRating = m.opRating + 2000
              /\ m.adjRating = m.rating

\* The result of the pairing of candidate i with target n, had it been simulated
\* and the resolver left both contestants as it left them in the mirrored pairing
Direct(i, n) == MatchOf(pokemonList[i], targets[n], scenario.shields, MatchAt(i, n).out)

\* C19: the results of the pairings taken over from their mirrored pairings
\* (rating, opRating, adjRating, adjOpRating), and the initial averages, are those
\* that simulating every pairing would give, the resolver leaving a contestant
\* the same on either side.
C19_ReuseIsPureOptimisation ==
    Unsolved =>
        /\ \A p \in RecordedPairs :
              LET m == MatchAt(p[1], p[2])
                  d == Direct(p[1], p[2])
              IN  /\ m.rating = d.rating
                  /\ m.opRating = d.opRating
                  /\ m.adjRating = d.adjRating
                  /\ m.adjOpRating = d.adjOpRating
        /\ \A i \in 1..Len(rankings) :
              LET sum == SeqSum([n \in 1..Len(targets) |->
                             IF targets[n].speciesId = pokemonList[i].speciesId THEN 0
                             ELSE Direct(i, n).adjRating])
                  count == IF Len(targets) = 1 THEN 1 ELSE Len(targets) - 1
              IN  rankings[i].rating = 10 * (sum \div (10 * count))

---------------------------------------------------------------------------
(* Properties of the solver's passes *)

\* A pass of weightMatchups has just been made
Solved == pc = "weight" /\ pass >= 1

\* The score the last pass gave candidate i
LastScore(i) == rankings[i].scores[pass + 1]

\* C21: after every pass each candidate's new score is a finite number,
\* floor(sum(rating x weight) / sum(weight)) over its pairings, every pairing
\* counting with the same weight above and below the line, and the divisor
\* being 1 when the weights add up to 0.
C21_WeightedAverage ==
    Solved =>
        \A i \in 1..Len(rankings) :
            LET ms == rankings[i].matches
            IN  /\ LastScore(i) # NaN
                /\ \A j \in 1..Len(ms) : ms[j].weight # NaN
                /\ LastScore(i) =
                      AvgScore(SeqSum([j \in 1..Len(ms) |-> ms[j].adjRating * ms[j].weight]),
                               SeqSum([j \in 1..Len(ms) |-> ms[j].weight]))

\* The place in the candidate pool of the contestant that is target j
CandidateOf(j) == FindBySpecies(pokemonList, targets[j].speciesId, 1)

\* The score candidate k had when the last pass began
EarlierScore(k) == rankings[k].scores[pass]

\* C22: in pass n a pairing whose own target had a score below
\* (0.1 + 0.06 n) x bestScore when the pass began has weight 0, whether the two
\* pools have the same size or not.
C22_CutoffByOwnTarget ==
    Solved =>
        \A i \in 1..Len(rankings) : \A j \in 1..Len(targets) :
            LET t == CandidateOf(j)
            IN  (/\ best > 0
                 /\ EarlierScore(t) # NaN
                 /\ 100 * EarlierScore(t) < (10 + 6 * (pass - 1)) * best) =>
                    rankings[i].matches[j].weight = 0

---------------------------------------------------------------------------
(* Properties of the initial averages *)

\* The targets that are not candidate i itself
OtherTargets(i) ==
    { n \in 1..Len(targets) : targets[n].speciesId # pokemonList[i].speciesId }

\* C23: the initial score of each candidate is
\* floor(sum of the shield-adjusted ratings of its non-self pairings / number
\* of its non-self pairings), the divisor being 1 when it has none; also for a
\* candidate that is not a target and for an empty target pool.
C23_InitialAverage ==
    Unsolved =>
        \A i \in 1..Len(rankings) :
            LET others == OtherTargets(i)
                sum == SeqSum([n \in 1..Len(targets) |->
                                  IF n \in others THEN rankings[i].matches[n].adjRating
                                  ELSE 0])
                count == IF others = {} THEN 1 ELSE Cardinality(others)
            IN  /\ rankings[i].scores = << 10 * (sum \div (10 * count)) >>
                /\ rankings[i].rating = 10 * (sum \div (10 * count))

---------------------------------------------------------------------------
(* setKeyMatchups over a pool of seven, under the scripted resolvers *)

\* The open cup at 2500 admits the seven released contestants; each scenario is
\* run once under each scripted resolver, without and with stored ranking data
KeyRuns ==
    { [Run("open", 2500, rd, OverridesNone, << ScenarioBySlug(sl) >>)
          EXCEPT !.resolver = by] :
        rd \in {PriorNone, PriorUsage}, sl \in AllSlugs, by \in {"attack", "bulk"} }

InitKey == \E r \in KeyRuns : InitWith(r)

NextKey ==
    \/ RankAllBegin
    \/ RankBegin
    \/ ReusePair
    \/ SimulatePair
    \/ WeightStep
    \/ Finalize

SpecKey == InitKey /\ [][NextKey]_vars

\* The pairings of an entry that are wins, and those that are losses
WinsOf(e) == { j \in 1..Len(e.matches) : e.matches[j].rating > 5000 }
LossesOf(e) == { j \in 1..Len(e.matches) : e.matches[j].rating < 5000 }

\* Pairing j of the entry is in the list
KeyListed(list, e, j) ==
    \E k \in 1..Len(list) : list[k].opponent = e.matches[j].opponent

\* The list names pairings of the set only, each once, each with the raw rating
\* the encounter gave the candidate
KeyFrom(list, e, set) ==
    /\ \A k \in 1..Len(list) :
          \E j \in set :
             LET m == e.matches[j]
                 pokemon == pokemonList[FindBySpecies(pokemonList, e.speciesId, 1)]
             IN  /\ list[k].opponent = m.opponent
                 /\ list[k].rating = m.rating
                 /\ m.rating = 10 * RawRating(m.out.hp[1], pokemon.stats.hp,
                                              m.out.hp[2], targets[j].stats.hp)
    /\ \A k, l \in 1..Len(list) : k # l => list[k].opponent # list[l].opponent

\* C24: in every final entry, matchups holds the wins (raw rating > 500), all
\* of them or the five with the highest solver score when there are more,
\* listed by raw rating descending; counters holds the losses (raw rating
\* < 500), all of them or the five with the highest opponent weighted score,
\* listed by raw rating ascending; the ratings listed are the raw ratings, and
\* no opponent is in both lists.
C24_KeyMatchups ==
    (pc = "done" /\ Len(run.scenarios) > 0) =>
        \A i \in 1..Len(rankings) :
            LET e == rankings[i]
            IN  /\ Len(e.matchups) = Min(5, Cardinality(WinsOf(e)))
                /\ KeyFrom(e.matchups, e, WinsOf(e))
                /\ \A j, u \in WinsOf(e) :
                      (KeyListed(e.matchups, e, j) /\ ~KeyListed(e.matchups, e, u)) =>
                          ~ScoreLess(e.matches[j].score, e.matches[u].score)
                /\ \A k \in 1..(Len(e.matchups) - 1) :
                      e.matchups[k].rating >= e.matchups[k + 1].rating
                /\ Len(e.counters) = Min(5, Cardinality(LossesOf(e)))
                /\ KeyFrom(e.counters, e, LossesOf(e))
                /\ \A j, u \in LossesOf(e) :
                      (KeyListed(e.counters, e, j) /\ ~KeyListed(e.counters, e, u)) =>
                          ~OpScoreLess(e.matches[j].opScore, e.matches[u].opScore)
                /\ \A k \in 1..(Len(e.counters) - 1) :
                      e.counters[k].rating <= e.counters[k + 1].rating
                /\ \A k \in 1..Len(e.matchups) : \A l \in 1..Len(e.counters) :
                      e.matchups[k].opponent # e.counters[l].opponent

\* One entry has six wins of which the one with the strictly lowest solver score
\* is left out, and one entry has six losses of which the one with the strictly
\* lowest opponent weighted score is left out
C24_Witness ==
    /\ pc = "done"
    /\ \E i \in 1..Len(rankings) :
          LET e == rankings[i]
          IN  /\ Cardinality(WinsOf(e)) = 6
              /\ Len(e.matchups) = 5
              /\ \E u \in WinsOf(e) :
                    /\ ~KeyListed(e.matchups, e, u)
                    /\ \A j \in WinsOf(e) \ {u} :
                          ScoreLess(e.matches[u].score, e.matches[j].score)
    /\ \E i \in 1..Len(rankings) :
          LET e == rankings[i]
          IN  /\ Cardinality(LossesOf(e)) = 6
              /\ Len(e.counters) = 5
              /\ \E u \in LossesOf(e) :
                    /\ ~KeyListed(e.counters, e, u)
                    /\ \A j \in LossesOf(e) \ {u} :
                          OpScoreLess(e.matches[u].opScore, e.matches[j].opScore)

---------------------------------------------------------------------------
(* Properties of the base scenario of rankOverall *)

\* The available categories, in the order of `categories`
Available == SelectSeq(Categories, LAMBDA c : Visible[c].exists)

\* leads when it is available, else the first available category
ExpectedBase ==
    IF Visible["leads"].exists THEN Visible["leads"].data ELSE Visible[Available[1]].data

\* The contestants a ranking lists
IdsOf(data) == { data[k].speciesId : k \in 1..Len(data) }

\* C25: when rankOverall recomputes, the overall ranking has exactly one entry
\* for each contestant of the base scenario (leads when available, else the
\* first available scenario) and none for another contestant; the matchups and
\* counters of an entry are those of the contestant's leads entry when leads is
\* available and are empty otherwise; the consistency ranking lists the
\* contestants of the same base scenario that at least two scenarios score, with
\* the matchups and counters of their base entries.
C25_BaseScenario ==
    pc = "overallDone" =>
        LET base        == ExpectedBase
            overall     == stored["overall"].data
            consistency == stored["consistency"].data
        IN  /\ Len(overall) = Len(base)
            /\ IdsOf(overall) = IdsOf(base)
            /\ \A k \in 1..Len(overall) :
                  LET id == overall[k].speciesId
                      i  == FindBySpecies(Visible["leads"].data, id, 1)
                  IN  IF Visible["leads"].exists
                      THEN /\ i > 0
                           /\ overall[k].matchups = Visible["leads"].data[i].matchups
                           /\ overall[k].counters = Visible["leads"].data[i].counters
                      ELSE /\ overall[k].matchups = << >>
                           /\ overall[k].counters = << >>
            /\ IdsOf(consistency) =
                  { id \in IdsOf(base) :
                      Cardinality({ c \in 1..Len(Available) :
                          FindBySpecies(Visible[Available[c]].data, id, 1) > 0 }) >= 2 }
            /\ Len(consistency) = Cardinality(IdsOf(consistency))
            /\ \A k \in 1..Len(consistency) :
                  LET i == FindBySpecies(base, consistency[k].speciesId, 1)
                  IN  /\ consistency[k].matchups = base[i].matchups
                      /\ consistency[k].counters = base[i].counters

\* leads is missing and the base scenario is a later one, whose entries have
\* matchups and counters of their own; it lists a contestant that leads would
\* not have been asked about
C25_Witness ==
    /\ pc = "overallDone"
    /\ ~Visible["leads"].exists
    /\ Len(stored["overall"].data) >= 2
    /\ \A k \in 1..Len(ExpectedBase) : ExpectedBase[k].matchups # << >>
    /\ Len(stored["consistency"].data) >= 1

---------------------------------------------------------------------------
(* Properties of the curve shaping across passes *)

\* The shield-adjusted rating rank() recorded for pairing j of candidate i
Recorded(i, j) ==
    LET m == rankings[i].matches[j]
    IN  IF m.simulated
        THEN MatchOf(pokemonList[i], targets[j], scenario.shields, m.out).adjRating
        ELSE MatchOf(pokemonList[j], targets[i], scenario.shields,
                     [hp |-> << m.out.hp[2], m.out.hp[1] >>,
                      shields |-> << m.out.shields[2], m.out.shields[1] >>]).adjOpRating

\* C26: after every pass the shaped rating of a pairing is the soft cap or the
\* harsh curve applied once to the shield-adjusted rating rank() recorded, so
\* that the pass to come, which applies the shaping again, leaves it as it is.
C26_ShapedOnce ==
    Solved =>
        \A i \in 1..Len(rankings) : \A j \in 1..Len(rankings[i].matches) :
            LET m == rankings[i].matches[j]
            IN  /\ m.adjRating = Shape(Recorded(i, j))
                /\ pass < Iterations(cupData) => Shape(m.adjRating) = m.adjRating

---------------------------------------------------------------------------
(* Properties of the include and exclude lists *)

\* The contestant of the call matches rule k of the include list
IncludeMatches(k) ==
    LET f == filt.include[k]
        p == filt.pokemon
    IN  CASE f.filterType = "type" -> p.types[1] \in f.values \/ p.types[2] \in f.values
          [] f.filterType = "dex"  -> f.lo <= p.dex /\ p.dex <= f.hi
          [] f.filterType = "tag"  -> f.values \cap p.tags # {}
          [] f.filterType = "move" -> \E mv \in f.values : knowsMove(p, mv)
          [] OTHER -> \/ p.speciesId \in f.ids
                      \/ /\ f.includeShadows
                         /\ Replace(Replace(p.speciesId, "_shadow"), "_xs") \in f.ids

\* C27: with a non-empty include list whose rules all apply to the bracket, a
\* contestant that matches none of the include rules is not admitted, whatever
\* the kinds of the rules.
C27_NoMatchNotAdmitted ==
    (/\ filt.called
     /\ Len(filt.include) > 0
     /\ \A k \in 1..Len(filt.include) : filt.cp \in filt.include[k].leagues
     /\ \A k \in 1..Len(filt.include) : ~IncludeMatches(k)) => ~filt.allowed

\* C28: a contestant that an `id` exclude rule of the bracket names, by its
\* identity or by its identity without the shadow and xs suffixes, is not
\* admitted, whatever the include list.
C28_IdExcludeWins ==
    (filt.called /\ ExcludedBy({"id"})) => ~filt.allowed

---------------------------------------------------------------------------
(* GameMasterNode.loadRankingData and saveRankingData on their own: one      *)
(* GameMasterNode, the files of one cup and bracket, calls in any order     *)

\* The categories the calls are about
StoreCategories == {"leads", "overall"}

\* The rankings that are saved
StoreData ==
    { << >>,
      << Entry(<<"azumarill">>, 1000), Entry(<<"medicham">>, 800) >>,
      << Entry(<<"medicham">>, 1000), Entry(<<"azumarill">>, NaN) >> }

\* The source data holds a leads ranking of the cup and bracket, or none
StoreRuns ==
    { WithOfficial(Run("mycup", 1500, PriorNone, OverridesNone, << >>), official, "returns") :
        official \in { NoFiles, [NoFiles EXCEPT !["leads"] = OfficialLeads] } }

InitStore == \E r \in StoreRuns : InitWith(r)

GmCalled == pc \in {"idle", "loaded", "saved"}

\* gm.loadRankingData(category, league, cup), lines 227-245
GmLoad(category) ==
    /\ GmCalled
    /\ loaded' = [category |-> category,
                  result |-> LoadCached(cache, stored, run.official, category)]
    /\ cache' = CacheAfter(cache, stored, run.official, category)
    /\ pc' = "loaded"
    /\ UNCHANGED << run, poolVars, si, rankVars, stored, filt >>

\* gm.saveRankingData(cup, category, league, data), lines 271-280
GmSave(category, data) ==
    /\ GmCalled
    /\ stored' = saveRankingData(stored, category, data)
    /\ pc' = "saved"
    /\ UNCHANGED << run, gmVars, poolVars, si, rankVars, filt >>

NextStore ==
    \/ \E category \in StoreCategories : GmLoad(category)
    \/ \E category \in StoreCategories, data \in StoreData : GmSave(category, data)

SpecStore == InitStore /\ [][NextStore]_vars

\* C29: on one GameMasterNode, a load of a category that was saved returns what
\* was saved last (as JSON keeps it), whatever loads and saves of the category
\* came before.
C29_LoadReturnsSaved ==
    (pc = "loaded" /\ stored[loaded.category].exists) =>
        loaded.result = stored[loaded.category]

---------------------------------------------------------------------------
(* main, lines 171-199: one RankerNode and one GameMasterNode take the cups  *)
(* and brackets of the command line one after the other                     *)

\* The cups and brackets of the command line, in the order main takes them
CupLeagues ==
    << << "classic", 1500 >>, << "custom", 1500 >>, << "mycup", 1500 >>,
       << "classic", 2500 >>, << "elite", 1500 >>, << "mycup", 2500 >> >>

\* The position of a run's cup and bracket in that order
PlaceOf(r) == CHOOSE k \in 1..Len(CupLeagues) : CupLeagues[k] = << r.cup, r.league >>

\* What the files of each cup and bracket may hold; the ranker has no scenario
SeriesRuns ==
    { Run(CupLeagues[k][1], CupLeagues[k][2], rd, od, << >>) :
        k \in 1..Len(CupLeagues), rd \in {PriorNone, PriorUsage},
        od \in {OverridesNone, OverridesOne} }

InitSeries == \E r \in SeriesRuns : InitWith(r)

\* lines 171-199: rankAll and rankOverall have returned, and the loop goes on
\* to a later cup and bracket, whose files and cached rankings are other ones
NextCupLeague ==
    /\ pc = "overallNone"
    /\ \E r \in SeriesRuns :
          /\ PlaceOf(r) > PlaceOf(run)
          /\ run' = r
    /\ pc' = "idle"
    /\ stored' = NoFiles
    /\ cache' = NoFiles
    /\ loaded' = NoLoad
    /\ UNCHANGED << poolVars, si, rankVars, filt >>

NextSeries ==
    \/ RankAllBegin
    \/ RankAllReturn
    \/ RankOverallNothing
    \/ NextCupLeague

SpecSeries == InitSeries /\ [][NextSeries]_vars

\* What rankAll leaves on a RankerNode that has run nothing before
FreshPools ==
    initPokemonList(run.league, getCupById(run.cup), run.rankingData,
                    loadOverrides(run.league, run.cup, run.overrideData))

\* C30: during a run, the candidate pool, the target pool, the overrides and the
\* battle settings (power cap, cup, level cap) are the ones a RankerNode that
\* has run nothing before would have for the run's cup and bracket: the level
\* cap is the cup's, or the one the Battle was constructed with.
C30_RunsIndependent ==
    pc \in {"ready", "done", "overallNone"} =>
        /\ pokemonList = FreshPools.pokemonList
        /\ targets = FreshPools.targets
        /\ overrides = loadOverrides(run.league, run.cup, run.overrideData)
        /\ league = run.league
        /\ cupData = getCupById(run.cup)
        /\ levelCap = getCupById(run.cup).levelCap

=============================================================================
